---------------------------- MODULE Spec2Model ----------------------------
(***************************************************************************)
(* Model of the arbitrage bot: the Match Store (database.py), the          *)
(* Arbitrage Detector (arbitrage_detector.py with the price lookups of     *)
(* api_clients.py), the Matcher (market_matcher.py) and the orchestrator   *)
(* (run.py with the alerts of notifications.py).                           *)
(*                                                                         *)
(* Numbers.  The code computes with binary floats.  The model computes     *)
(* with exact decimal fixed point:                                         *)
(*   - a price is an integer number of thousandths (0.40 is 400);          *)
(*   - a fee rate is an integer number of thousandths (0.007 is 7);        *)
(*   - a margin (gross, net, min_profit_margin) is an integer number of    *)
(*     millionths (0.05 is 50000), so price * rate is exact;               *)
(*   - a similarity score is an integer number of hundredths.              *)
(* An optional number (a float or None) is a tuple: <<>> is None and       *)
(* <<v>> is the number v.  An optional string is the string or None.       *)
(***************************************************************************)
EXTENDS Integers, Sequences, FiniteSets, TLC

VARIABLES
    \* ---- Match Store (database.py) ----
    rows,        \* the rows of table matched_markets
    seq,         \* sqlite_sequence of the AUTOINCREMENT key: largest id ever used
    clock,       \* CURRENT_TIMESTAMP, in seconds
    lastOp       \* the last DatabaseManager call: its name, argument and return
                 \* value, the table before the call, and whether the call before
                 \* it was the same call with the same argument

VARIABLES
    \* ---- Arbitrage Detector (arbitrage_detector.py, api_clients.py, config.py) ----
    config,      \* the values of module config
    detector,    \* the fields of the ArbitrageDetector object
    clients,     \* the singletons of APIClientManager
    pending,     \* the call about to be made and what the venues answer to it
    chk          \* the outcome of that call

VARIABLES
    \* ---- ArbitrageDetector.scan_all_matches ----
    matched_markets,   \* the argument of the call
    scan_i,            \* the number of the match the loop handles next
    opportunities,     \* the list the call returns
    outcomes,          \* per match handled, how its check ended
    calls,             \* the check_opportunity calls made, in order
    scan_pc            \* "idle", "loop" or "done"

VARIABLES
    \* ---- MarketMatcher.find_matches ----
    polymarket_markets,    \* the first argument: the source markets
    kalshi_markets,        \* the second argument: the target markets
    similarity_threshold,  \* the third argument, a number or None
    encoder,               \* whether the embedding model can be loaded and run
    cos_sim,               \* the embedding model: the cosine similarity of
                           \* the embeddings of a question and a title
    best,                  \* per source market with text: best_match_index
                           \* and best_match_score
    match_list,            \* the list the call returns
    match_pc,              \* "idle", "ready", "done" or "raised"
    _model,                \* the field _model of the MarketMatcher object
    model_loads            \* SentenceTransformer models loaded by the process

VARIABLES
    \* ---- the orchestrator (run.py) ----
    pipe_pc,        \* the statement of run.py that is executed next
    caller,         \* who called run_market_matching: "pipeline" or "scan"
    cycle,          \* the number of run_full_pipeline calls begun so far
    running,        \* the number of run_full_pipeline calls under way
    due,            \* the scheduled job's next_run has passed
    events,         \* what the current cycle has done so far, in order
    send_i,         \* the number of the opportunity the send loop handles next
    sent,           \* the opportunities handed to send_alert, in order
    deliveries,     \* what send_alert returned for each of them
    alert_method    \* config.ALERT_METHOD

storeVars == <<rows, seq, clock, lastOp>>
detVars == <<config, detector, clients, pending, chk>>
scanVars == <<matched_markets, scan_i, opportunities, outcomes, calls, scan_pc>>
matchVars == <<polymarket_markets, kalshi_markets, similarity_threshold,
               encoder, cos_sim, best, match_list, match_pc, _model,
               model_loads>>
pipeVars == <<pipe_pc, caller, cycle, running, due, events, send_i, sent,
              deliveries, alert_method>>
vars == <<rows, seq, clock, lastOp, config, detector, clients, pending, chk,
          matched_markets, scan_i, opportunities, outcomes, calls, scan_pc,
          polymarket_markets, kalshi_markets, similarity_threshold,
          encoder, cos_sim, best, match_list, match_pc, _model, model_loads,
          pipe_pc, caller, cycle, running, due, events, send_i, sent,
          deliveries, alert_method>>

None == "None"       \* Python None, for strings
NoKey == "NoKey"     \* the key is absent from the dict
NoneF == <<>>        \* Python None, for numbers
F(v) == <<v>>        \* a number

-----------------------------------------------------------------------------
(* Bounds *)
MaxBatch == 2        \* longest candidate list handed to store_matches
MaxId == 3           \* largest surrogate id the model hands out
MaxClock == 1        \* last second of the model's clock
MaxPairs == 3        \* longest list handed to scan_all_matches
MaxPoly == 2         \* longest list of source markets handed to find_matches
MaxKalshi == 2       \* longest list of target markets handed to find_matches

-----------------------------------------------------------------------------
(* Match Store *)

Cand(q, t, p, k, s) ==
    [polymarket_question |-> q, kalshi_title |-> t, polymarket_id |-> p,
     kalshi_ticker |-> k, similarity_score |-> s]

\* candidate matches: fresh pairs, one pair rediscovered with another score,
\* ids that are None (a market without identifier), and a dict lacking a key
StoreCandidates ==
    { Cand("q1", "t1", "p1", "k1", 85),
      Cand("q1", "t1", "p1", "k1", 90),
      Cand("q2", "t1", "p2", "k1", 90),
      Cand("q2", "t2", None, "k2", 90),
      Cand("q2", "t2", "p2", None, 85),
      Cand(NoKey, "t2", "p2", "k2", 90) }

SeqsUpTo(S, n) == UNION { [1..m -> S] : m \in 0..n }

Batches == SeqsUpTo(StoreCandidates, MaxBatch)

\* the key of the UNIQUE(polymarket_id, kalshi_ticker) constraint
PairKey(r) == <<r.polymarket_id, r.kalshi_ticker>>

\* building the parameter tuple raises KeyError when a subscripted key is absent
RaisesKeyError(match) ==
    \/ match.polymarket_question = NoKey
    \/ match.kalshi_title = NoKey
    \/ match.polymarket_id = NoKey
    \/ match.kalshi_ticker = NoKey

\* mutant: the columns are declared without NOT NULL
ViolatesNotNull_NoConstraint(match) == FALSE

\* a NOT NULL column would receive NULL
ViolatesNotNull(match) ==
    \/ match.polymarket_question = None
    \/ match.kalshi_title = None
    \/ match.polymarket_id = None
    \/ match.kalshi_ticker = None

\* mutant: the table is created without the UNIQUE constraint
ViolatesUnique_NoConstraint(rs, match) == FALSE

\* the UNIQUE(polymarket_id, kalshi_ticker) constraint
ViolatesUnique(rs, match) ==
    \E r \in rs : PairKey(r) = PairKey(match)

NewRow(sq, match, now) ==
    [id |-> sq + 1,
     polymarket_question |-> match.polymarket_question,
     kalshi_title |-> match.kalshi_title,
     polymarket_id |-> match.polymarket_id,
     kalshi_ticker |-> match.kalshi_ticker,
     similarity_score |-> match.similarity_score,
     created_at |-> now]

\* mutant: INSERT OR REPLACE, the conflicting row gives way to the new one
InsertOrIgnore_Replace(rs, sq, match, now) ==
    IF ViolatesNotNull(match)
    THEN [rows |-> rs, seq |-> sq, rowcount |-> 0]
    ELSE [rows |-> { r \in rs : PairKey(r) # PairKey(match) }
                      \cup { NewRow(sq, match, now) },
          seq |-> sq + 1, rowcount |-> 1]

\* INSERT OR IGNORE of one match at second now: the new table, the new
\* sqlite_sequence and cursor.rowcount
InsertOrIgnore(rs, sq, match, now) ==
    IF ViolatesNotNull(match) \/ ViolatesUnique(rs, match)
    THEN [rows |-> rs, seq |-> sq, rowcount |-> 0]
    ELSE [rows |-> rs \cup { NewRow(sq, match, now) },
          seq |-> sq + 1, rowcount |-> 1]

\* mutant: every executed INSERT is counted, the test of cursor.rowcount is lost
RECURSIVE StoreLoop_CountAll(_, _, _, _, _, _)
StoreLoop_CountAll(rs, sq, now, matches, i, stored_count) ==
    IF i > Len(matches)
    THEN [rows |-> rs, seq |-> sq, ret |-> stored_count]
    ELSE IF RaisesKeyError(matches[i])
         THEN StoreLoop_CountAll(rs, sq, now, matches, i + 1, stored_count)
         ELSE LET ins == InsertOrIgnore(rs, sq, matches[i], now)
              IN  StoreLoop_CountAll(ins.rows, ins.seq, now, matches, i + 1,
                                     stored_count + 1)

\* the loop of store_matches from match number i on.  CURRENT_TIMESTAMP has a
\* resolution of one second: the rows of one call get the second of the call
RECURSIVE StoreLoop(_, _, _, _, _, _)
StoreLoop(rs, sq, now, matches, i, stored_count) ==
    IF i > Len(matches)
    THEN [rows |-> rs, seq |-> sq, ret |-> stored_count]
    ELSE IF RaisesKeyError(matches[i])
         THEN StoreLoop(rs, sq, now, matches, i + 1, stored_count)
         ELSE LET ins == InsertOrIgnore(rs, sq, matches[i], now)
              IN  StoreLoop(ins.rows, ins.seq, now, matches, i + 1,
                            IF ins.rowcount > 0 THEN stored_count + 1
                                                ELSE stored_count)

store_matches(rs, sq, now, matches) ==
    StoreLoop(rs, sq, now, matches, 1, 0)

\* the lists that hold every row of rs once
Orderings(rs) ==
    { s \in [1..Cardinality(rs) -> rs] :
        \A i \in DOMAIN s : \A j \in DOMAIN s : s[i] = s[j] => i = j }

\* mutant: ORDER BY created_at ASC
get_all_matches_Ascending(rs) ==
    { s \in Orderings(rs) :
        \A i \in DOMAIN s : \A j \in DOMAIN s :
            i < j => s[i].created_at <= s[j].created_at }

\* get_all_matches: the lists SELECT ... ORDER BY created_at DESC may deliver;
\* SQL leaves the order of rows of the same second open
get_all_matches(rs) ==
    { s \in Orderings(rs) :
        \A i \in DOMAIN s : \A j \in DOMAIN s :
            i < j => s[i].created_at >= s[j].created_at }

get_match_count(rs) == Cardinality(rs)

\* mutant: the WHERE clause is dropped when the row exists
delete_match_NoWhere(rs, match_id) ==
    LET hit == { r \in rs : r.id = match_id }
    IN  [rows |-> IF hit # {} THEN {} ELSE rs, ret |-> hit # {}]

\* DatabaseManager.delete_match
delete_match(rs, match_id) ==
    LET hit == { r \in rs : r.id = match_id }
    IN  [rows |-> rs \ hit, ret |-> hit # {}]

\* DatabaseManager.clear_all_matches
clear_all_matches(rs) ==
    [rows |-> {}, ret |-> Cardinality(rs)]

StoreInit ==
    /\ rows = {}
    /\ seq = 0
    /\ clock = 0
    /\ lastOp = [op |-> "init", arg |-> <<>>, ret |-> 0, before |-> {},
                 repeat |-> FALSE]

StoreMatches ==
    \E matches \in Batches :
        /\ seq + Len(matches) <= MaxId
        /\ LET res == store_matches(rows, seq, clock, matches)
           IN  /\ rows' = res.rows
               /\ seq' = res.seq
               /\ lastOp' = [op |-> "store", arg |-> matches, ret |-> res.ret,
                             before |-> rows,
                             repeat |-> (lastOp.op = "store"
                                         /\ lastOp.arg = matches)]
        /\ UNCHANGED clock

DeleteMatch ==
    \E match_id \in 1..MaxId :
        LET res == delete_match(rows, match_id)
        IN  /\ rows' = res.rows
            /\ lastOp' = [op |-> "delete", arg |-> <<match_id>>,
                          ret |-> IF res.ret THEN 1 ELSE 0,
                          before |-> rows, repeat |-> FALSE]
            /\ UNCHANGED <<seq, clock>>

ClearAll ==
    LET res == clear_all_matches(rows)
    IN  /\ rows' = res.rows
        /\ lastOp' = [op |-> "clear", arg |-> <<>>, ret |-> res.ret,
                      before |-> rows, repeat |-> FALSE]
        /\ UNCHANGED <<seq, clock>>

\* get_all_matches is called: one of the lists the query may deliver
GetAllMatches ==
    \E res \in get_all_matches(rows) :
        /\ lastOp' = [op |-> "getAll", arg |-> <<>>, ret |-> res,
                      before |-> rows, repeat |-> FALSE]
        /\ UNCHANGED <<rows, seq, clock>>

\* a second of wall-clock time passes between two calls
Tick ==
    /\ clock < MaxClock
    /\ clock' = clock + 1
    /\ UNCHANGED <<rows, seq, lastOp>>

StoreNext == StoreMatches \/ DeleteMatch \/ ClearAll \/ GetAllMatches \/ Tick



-----------------------------------------------------------------------------
(* Arbitrage Detector *)

PriceOne == 1000          \* the price 1.0, in thousandths
MarginOne == 1000000      \* the margin 1.0, in millionths

\* the defaults of config.py
MIN_PROFIT_MARGIN == 20000        \* 0.02, in millionths
KALSHI_FEE_PERCENT == 7           \* 0.007, in thousandths
POLYMARKET_GAS_FEE_USD == 100     \* 0.10 USD, in thousandths of a dollar
MAX_POSITION_USD == 1000          \* 1000 USD
SIMILARITY_THRESHOLD == 85        \* 0.85, in hundredths

Max(a, b) == IF a >= b THEN a ELSE b

\* Python's "arg or default": None and 0 are falsy
OrDefault(arg, default) ==
    IF arg = NoneF \/ arg = F(0) THEN default ELSE arg[1]

\* ArbitrageDetector.__init__
ArbitrageDetector(cfg, min_profit_margin, kalshi_fee, polymarket_gas_fee) ==
    [min_profit_margin |-> OrDefault(min_profit_margin, cfg.MIN_PROFIT_MARGIN),
     kalshi_fee |-> OrDefault(kalshi_fee, cfg.KALSHI_FEE_PERCENT),
     polymarket_gas_fee |-> OrDefault(polymarket_gas_fee,
                                      cfg.POLYMARKET_GAS_FEE_USD)]

NoClients == [polymarket_client |-> None, kalshi_client |-> None]

\* APIClientManager.get_polymarket_client: the client returned (None in mock
\* mode), whether the call raised, and the singletons after the call
get_polymarket_client(cfg, cl) ==
    IF cl.polymarket_client # None
    THEN [raised |-> FALSE, client |-> cl.polymarket_client, clients |-> cl]
    ELSE IF cfg.MOCK_MODE
    THEN [raised |-> FALSE, client |-> None, clients |-> cl]
    ELSE IF cfg.POLY_PRIVATE_KEY = ""
    THEN [raised |-> TRUE, client |-> None, clients |-> cl]
    ELSE [raised |-> FALSE, client |-> "ClobClient",
          clients |-> [cl EXCEPT !.polymarket_client = "ClobClient"]]

\* APIClientManager.get_kalshi_client
get_kalshi_client(cfg, cl) ==
    IF cl.kalshi_client # None
    THEN [raised |-> FALSE, client |-> cl.kalshi_client, clients |-> cl]
    ELSE IF cfg.MOCK_MODE
    THEN [raised |-> FALSE, client |-> None, clients |-> cl]
    ELSE IF cfg.KALSHI_KEY_ID = "" \/ cfg.KALSHI_PRIVATE_KEY = ""
    THEN [raised |-> TRUE, client |-> None, clients |-> cl]
    ELSE [raised |-> FALSE, client |-> "KalshiClient",
          clients |-> [cl EXCEPT !.kalshi_client = "KalshiClient"]]

\* the value None of a price lookup
NonePrices == [missing |-> TRUE]

\* a venue's answer to get_market: the call fails (status "error"), or it
\* delivers the two price fields, each a number or missing
ErrorResponse == [status |-> "error", yes |-> NoneF, no |-> NoneF]

\* get_polymarket_price: response.yes and response.no are the prices of
\* tokens[0] and tokens[1], in thousandths
get_polymarket_price(cfg, cl, response) ==
    LET c == get_polymarket_client(cfg, cl)
    IN  IF c.raised
        THEN [raised |-> TRUE, prices |-> NonePrices, clients |-> c.clients]
        ELSE IF c.client = None
        THEN [raised |-> FALSE, prices |-> NonePrices, clients |-> c.clients]
        ELSE IF \/ response.status = "error"
                \/ response.yes = NoneF
                \/ response.no = NoneF
        THEN [raised |-> FALSE, prices |-> NonePrices, clients |-> c.clients]
        ELSE [raised |-> FALSE,
              prices |-> [yes_price |-> response.yes[1],
                          no_price |-> response.no[1]],
              clients |-> c.clients]

\* get_kalshi_price: response.yes and response.no are yes_ask and no_ask, in
\* cents; the price is the ask divided by 100
get_kalshi_price(cfg, cl, response) ==
    LET c == get_kalshi_client(cfg, cl)
    IN  IF c.raised
        THEN [raised |-> TRUE, prices |-> NonePrices, clients |-> c.clients]
        ELSE IF c.client = None
        THEN [raised |-> FALSE, prices |-> NonePrices, clients |-> c.clients]
        ELSE IF \/ response.status = "error"
                \/ response.yes = NoneF
                \/ response.no = NoneF
        THEN [raised |-> FALSE, prices |-> NonePrices, clients |-> c.clients]
        ELSE [raised |-> FALSE,
              prices |-> [yes_price |-> response.yes[1] * 10,
                          no_price |-> response.no[1] * 10],
              clients |-> c.clients]

\* mutant: the last price is not looked at
_validate_prices_ForgetsLast(poly_yes, poly_no, kalshi_yes, kalshi_no) ==
    \A price \in {poly_yes, poly_no, kalshi_yes} :
        ~(price = NoneF \/ ~(0 <= price[1] /\ price[1] <= PriceOne))

\* ArbitrageDetector._validate_prices, its arguments numbers or None
_validate_prices(poly_yes, poly_no, kalshi_yes, kalshi_no) ==
    \A price \in {poly_yes, poly_no, kalshi_yes, kalshi_no} :
        ~(price = NoneF \/ ~(0 <= price[1] /\ price[1] <= PriceOne))

\* the net margin before it is floored: total_cost in thousandths, gross_profit
\* and the result in millionths
NetBeforeFloor(det, cfg, gross_profit, total_cost) ==
    LET kalshi_fee_amount == total_cost * det.kalshi_fee
        position_size == cfg.MAX_POSITION_USD
        gas_fee_percent == (det.polymarket_gas_fee * 1000) \div position_size
        total_fee_percent == kalshi_fee_amount + gas_fee_percent
    IN  gross_profit - total_fee_percent

\* mutant: the gas fee is left out of the fees
_calculate_net_profit_NoGas(det, cfg, gross_profit, total_cost) ==
    Max(0, gross_profit - total_cost * det.kalshi_fee)

\* ArbitrageDetector._calculate_net_profit
_calculate_net_profit(det, cfg, gross_profit, total_cost) ==
    Max(0, NetBeforeFloor(det, cfg, gross_profit, total_cost))

\* mutant: Yes-No is taken whenever its gross margin is positive
SelectStrategy_YesNoFirst(yes_no_profit, no_yes_profit) ==
    IF yes_no_profit > 0 THEN "Yes-No"
    ELSE IF no_yes_profit > 0 THEN "No-Yes"
    ELSE None

\* mutant: the first comparison is not strict
SelectStrategy_NotStrict(yes_no_profit, no_yes_profit) ==
    IF yes_no_profit >= no_yes_profit /\ yes_no_profit > 0 THEN "Yes-No"
    ELSE IF no_yes_profit > 0 THEN "No-Yes"
    ELSE None

\* the branch check_opportunity takes after computing the two gross margins
SelectStrategy(yes_no_profit, no_yes_profit) ==
    IF yes_no_profit > no_yes_profit /\ yes_no_profit > 0 THEN "Yes-No"
    ELSE IF no_yes_profit > 0 THEN "No-Yes"
    ELSE None

\* the value None of check_opportunity
NoneOpportunity == [type |-> None]

\* how a check_opportunity call ends: raised or returned value, the place it
\* returned from, the branch taken, the singletons after the call
Outcome(raised, value, stage, branch, cl) ==
    [raised |-> raised, value |-> value, stage |-> stage, branch |-> branch,
     clients |-> cl]

\* mutant: the No-Yes cost takes the target's no price, a leg of Yes-No
GrossMargins_SharedLeg(poly_yes, poly_no, kalshi_yes, kalshi_no) ==
    [yes_no_cost |-> poly_yes + kalshi_no,
     yes_no_profit |-> MarginOne - (poly_yes + kalshi_no) * 1000,
     no_yes_cost |-> poly_no + kalshi_no,
     no_yes_profit |-> MarginOne - (poly_no + kalshi_no) * 1000]

\* the two costs (thousandths) and the two gross margins (millionths) that
\* check_opportunity computes from the four validated prices
GrossMargins(poly_yes, poly_no, kalshi_yes, kalshi_no) ==
    [yes_no_cost |-> poly_yes + kalshi_no,
     yes_no_profit |-> MarginOne - (poly_yes + kalshi_no) * 1000,
     no_yes_cost |-> poly_no + kalshi_yes,
     no_yes_profit |-> MarginOne - (poly_no + kalshi_yes) * 1000]

\* ArbitrageDetector.check_opportunity, from the strategy selection on
EvaluateStrategies(det, cfg, cl, polymarket_id, kalshi_ticker, poly_yes, poly_no, kalshi_yes, kalshi_no) ==
    LET m == GrossMargins(poly_yes, poly_no, kalshi_yes, kalshi_no)
        yes_no_cost == m.yes_no_cost
        yes_no_profit == m.yes_no_profit
        no_yes_cost == m.no_yes_cost
        no_yes_profit == m.no_yes_profit
        branch == SelectStrategy(yes_no_profit, no_yes_profit)
    IN  IF branch = "Yes-No"
        THEN LET net_profit == _calculate_net_profit(det, cfg, yes_no_profit,
                                                     yes_no_cost)
             IN  IF net_profit >= det.min_profit_margin
                 THEN Outcome(FALSE,
                              [type |-> "Yes-No",
                               polymarket_id |-> polymarket_id,
                               kalshi_ticker |-> kalshi_ticker,
                               polymarket_yes_price |-> poly_yes,
                               kalshi_no_price |-> kalshi_no,
                               gross_profit_margin |-> yes_no_profit,
                               net_profit_margin |-> net_profit,
                               total_cost |-> yes_no_cost],
                              "found", branch, cl)
                 ELSE Outcome(FALSE, NoneOpportunity, "below_min", branch, cl)
        ELSE IF branch = "No-Yes"
        THEN LET net_profit == _calculate_net_profit(det, cfg, no_yes_profit,
                                                     no_yes_cost)
             IN  IF net_profit >= det.min_profit_margin
                 THEN Outcome(FALSE,
                              [type |-> "No-Yes",
                               polymarket_id |-> polymarket_id,
                               kalshi_ticker |-> kalshi_ticker,
                               polymarket_no_price |-> poly_no,
                               kalshi_yes_price |-> kalshi_yes,
                               gross_profit_margin |-> no_yes_profit,
                               net_profit_margin |-> net_profit,
                               total_cost |-> no_yes_cost],
                              "found", branch, cl)
                 ELSE Outcome(FALSE, NoneOpportunity, "below_min", branch, cl)
        ELSE Outcome(FALSE, NoneOpportunity, "no_candidate", branch, cl)

\* ArbitrageDetector.check_opportunity
check_opportunity(det, cfg, cl, polymarket_id, kalshi_ticker, polyResponse, kalshiResponse) ==
    LET p == get_polymarket_price(cfg, cl, polyResponse)
    IN  IF p.raised
        THEN Outcome(TRUE, NoneOpportunity, "raised", None, p.clients)
        ELSE
        LET k == get_kalshi_price(cfg, p.clients, kalshiResponse)
        IN  IF k.raised
            THEN Outcome(TRUE, NoneOpportunity, "raised", None, k.clients)
            ELSE IF p.prices = NonePrices
            THEN Outcome(FALSE, NoneOpportunity, "no_poly_prices", None,
                         k.clients)
            ELSE IF k.prices = NonePrices
            THEN Outcome(FALSE, NoneOpportunity, "no_kalshi_prices", None,
                         k.clients)
            ELSE IF ~_validate_prices(F(p.prices.yes_price),
                                      F(p.prices.no_price),
                                      F(k.prices.yes_price),
                                      F(k.prices.no_price))
            THEN Outcome(FALSE, NoneOpportunity, "invalid_prices", None,
                         k.clients)
            ELSE EvaluateStrategies(det, cfg, k.clients, polymarket_id,
                                    kalshi_ticker,
                                    p.prices.yes_price, p.prices.no_price,
                                    k.prices.yes_price, k.prices.no_price)

-----------------------------------------------------------------------------
(* The detector on its own: one call, its inputs drawn at the start *)

DefaultConfig ==
    [MOCK_MODE |-> TRUE, POLY_PRIVATE_KEY |-> "", KALSHI_KEY_ID |-> "",
     KALSHI_PRIVATE_KEY |-> "",
     MIN_PROFIT_MARGIN |-> MIN_PROFIT_MARGIN,
     KALSHI_FEE_PERCENT |-> KALSHI_FEE_PERCENT,
     POLYMARKET_GAS_FEE_USD |-> POLYMARKET_GAS_FEE_USD,
     MAX_POSITION_USD |-> MAX_POSITION_USD,
     SIMILARITY_THRESHOLD |-> SIMILARITY_THRESHOLD]

\* the environments the bot is started in
Configs ==
    [MOCK_MODE : BOOLEAN, POLY_PRIVATE_KEY : {"", "key"},
     KALSHI_KEY_ID : {"id"}, KALSHI_PRIVATE_KEY : {"", "pem"},
     MIN_PROFIT_MARGIN : {0, MIN_PROFIT_MARGIN},
     KALSHI_FEE_PERCENT : {KALSHI_FEE_PERCENT},
     POLYMARKET_GAS_FEE_USD : {POLYMARKET_GAS_FEE_USD},
     MAX_POSITION_USD : {100, MAX_POSITION_USD},
     SIMILARITY_THRESHOLD : {SIMILARITY_THRESHOLD}]

\* both venue clients can be built
Live(cfg) ==
    /\ ~cfg.MOCK_MODE
    /\ cfg.POLY_PRIVATE_KEY # ""
    /\ cfg.KALSHI_KEY_ID # "" /\ cfg.KALSHI_PRIVATE_KEY # ""

\* the arguments handed to the constructor
MinMarginArgs == {NoneF, F(0), F(MIN_PROFIT_MARGIN)}

Opt(S) == {NoneF} \cup { F(v) : v \in S }

\* Polymarket token prices, in thousandths; Kalshi asks, in cents
PolyPrices == {0 - 10, 0, 400, 495, 585, 600, 1000, 1010}
KalshiAsks == {0 - 1, 0, 40, 45, 50, 55, 100, 101}

PolyResponses ==
    {ErrorResponse} \cup [status : {"ok"}, yes : Opt(PolyPrices), no : Opt(PolyPrices)]
KalshiResponses ==
    {ErrorResponse} \cup [status : {"ok"}, yes : Opt(KalshiAsks), no : Opt(KalshiAsks)]

\* the answers tried when a client cannot be had
FewPolyResponses ==
    {ErrorResponse, [status |-> "ok", yes |-> F(400), no |-> F(600)]}
FewKalshiResponses ==
    {ErrorResponse, [status |-> "ok", yes |-> F(45), no |-> F(55)]}

CheckCalls(cfg) ==
    [call : {"check_opportunity"},
     polyResponse : IF Live(cfg) THEN PolyResponses ELSE FewPolyResponses,
     kalshiResponse : IF Live(cfg) THEN KalshiResponses ELSE FewKalshiResponses]

ValidateCalls ==
    [call : {"_validate_prices"},
     args : [1..4 -> Opt({0 - 10, 0, 400, 1000, 1010})]]

NoCall == [call |-> None]
Idle == [stage |-> "idle"]

\* no find_matches call is under way
MatchIdle ==
    /\ polymarket_markets = <<>>
    /\ kalshi_markets = <<>>
    /\ similarity_threshold = NoneF
    /\ encoder = "ok"
    /\ cos_sim = <<>>
    /\ best = <<>>
    /\ match_list = <<>>
    /\ match_pc = "idle"
    /\ _model = None
    /\ model_loads = 0

\* run.py is not running
PipeIdle ==
    /\ pipe_pc = "idle"
    /\ caller = "pipeline"
    /\ cycle = 0
    /\ running = 0
    /\ due = FALSE
    /\ events = <<>>
    /\ send_i = 1
    /\ sent = <<>>
    /\ deliveries = <<>>
    /\ alert_method = "console"

\* no scan_all_matches call is under way
ScanIdle ==
    /\ matched_markets = <<>>
    /\ scan_i = 1
    /\ opportunities = <<>>
    /\ outcomes = <<>>
    /\ calls = <<>>
    /\ scan_pc = "idle"

DetIdle ==
    /\ config = DefaultConfig
    /\ detector = ArbitrageDetector(DefaultConfig, NoneF, NoneF, NoneF)
    /\ clients = NoClients
    /\ pending = NoCall
    /\ chk = Idle

DetInit ==
    /\ config \in Configs
    /\ \E a \in MinMarginArgs :
           detector = ArbitrageDetector(config, a, NoneF, NoneF)
    /\ clients = NoClients
    /\ \/ pending \in CheckCalls(config)
       \/ /\ pending \in ValidateCalls
          /\ config = [DefaultConfig EXCEPT !.KALSHI_KEY_ID = "id"]
    /\ chk = Idle

CheckOpportunity ==
    /\ pending.call = "check_opportunity"
    /\ chk = Idle
    /\ LET out == check_opportunity(detector, config, clients, "p1", "k1",
                                    pending.polyResponse,
                                    pending.kalshiResponse)
       IN  /\ chk' = [stage |-> out.stage, raised |-> out.raised,
                      value |-> out.value, branch |-> out.branch]
           /\ clients' = out.clients
    /\ UNCHANGED <<config, detector, pending>>

ValidatePrices ==
    /\ pending.call = "_validate_prices"
    /\ chk = Idle
    /\ chk' = [stage |-> "validated",
               ret |-> _validate_prices(pending.args[1], pending.args[2],
                                        pending.args[3], pending.args[4])]
    /\ UNCHANGED <<config, detector, clients, pending>>

DetectInit == StoreInit /\ DetInit /\ ScanIdle /\ MatchIdle /\ PipeIdle
DetectNext ==
    /\ CheckOpportunity \/ ValidatePrices
    /\ UNCHANGED <<storeVars, scanVars, matchVars, pipeVars>>
DetectSpec == DetectInit /\ [][DetectNext]_vars

-----------------------------------------------------------------------------
(* Matcher *)

\* poly_market_map: the source markets that have a question, in list order
RECURSIVE PolyMarketMap(_, _)
PolyMarketMap(poly, i) ==
    IF i > Len(poly) THEN <<>>
    ELSE IF poly[i].question # NoKey
         THEN <<poly[i]>> \o PolyMarketMap(poly, i + 1)
         ELSE PolyMarketMap(poly, i + 1)

\* kalshi_market_map: the target markets that have a title, in list order
RECURSIVE KalshiMarketMap(_, _)
KalshiMarketMap(kalshi, j) ==
    IF j > Len(kalshi) THEN <<>>
    ELSE IF kalshi[j].title # NoKey
         THEN <<kalshi[j]>> \o KalshiMarketMap(kalshi, j + 1)
         ELSE KalshiMarketMap(kalshi, j + 1)

\* the text of a Kalshi market that is embedded: title, a space and subtitle
full_title(k_market) ==
    IF k_market.subtitle # NoKey /\ k_market.subtitle # ""
    THEN <<k_market.title, k_market.subtitle>>
    ELSE <<k_market.title>>

\* mutant: of equal scores the last one wins
RECURSIVE BestMatchIndex_Last(_, _, _)
BestMatchIndex_Last(similarity_scores, j, bestj) ==
    IF j > Len(similarity_scores) THEN bestj
    ELSE BestMatchIndex_Last(similarity_scores, j + 1,
             IF similarity_scores[j] >= similarity_scores[bestj] THEN j ELSE bestj)

\* max(range(len(similarity_scores)), key=...): the scan of Python's max from
\* index j on, bestj the best index so far; a later index replaces it only
\* with a greater score
RECURSIVE BestMatchIndex(_, _, _)
BestMatchIndex(similarity_scores, j, bestj) ==
    IF j > Len(similarity_scores) THEN bestj
    ELSE BestMatchIndex(similarity_scores, j + 1,
             IF similarity_scores[j] > similarity_scores[bestj] THEN j ELSE bestj)

\* mutant: a score equal to the threshold is turned down
MeetsThreshold_Strict(best_match_score, threshold) == best_match_score > threshold

\* line 117: "if best_match_score >= threshold"
MeetsThreshold(best_match_score, threshold) == best_match_score >= threshold

\* the loop over poly_market_map from index i on
RECURSIVE MatchLoop(_, _, _, _, _, _, _)
MatchLoop(poly_market_map, kalshi_market_map, sim, threshold, i, found, bests) ==
    IF i > Len(poly_market_map) THEN [matches |-> found, best |-> bests]
    ELSE LET p_market == poly_market_map[i]
             similarity_scores ==
                 [j \in 1..Len(kalshi_market_map) |->
                     sim[<<p_market.question, full_title(kalshi_market_map[j])>>]]
             best_match_index == BestMatchIndex(similarity_scores, 2, 1)
             best_match_score == similarity_scores[best_match_index]
             k_market == kalshi_market_map[best_match_index]
             b == [polymarket_id |-> p_market.condition_id,
                   kalshi_ticker |-> k_market.ticker,
                   best_match_score |-> best_match_score]
         IN  MatchLoop(poly_market_map, kalshi_market_map, sim, threshold, i + 1,
                 IF MeetsThreshold(best_match_score, threshold)
                 THEN Append(found,
                             [polymarket_question |-> p_market.question,
                              kalshi_title |-> k_market.title,
                              polymarket_id |-> p_market.condition_id,
                              kalshi_ticker |-> k_market.ticker,
                              similarity_score |-> best_match_score])
                 ELSE found,
                 Append(bests, b))

\* what find_matches hands back when it returns [] early, and when it raises
ReturnsEmpty == [matches |-> <<>>, best |-> <<>>, raised |-> FALSE]
Raises == [matches |-> <<>>, best |-> <<>>, raised |-> TRUE]

\* mutant: only the questions are tested before the texts are embedded
NothingToEncode_SourcesOnly(poly_market_map, kalshi_market_map) ==
    poly_market_map = <<>>

\* line 88: "if not poly_questions or not kalshi_titles"
NothingToEncode(poly_market_map, kalshi_market_map) ==
    poly_market_map = <<>> \/ kalshi_market_map = <<>>

\* MarketMatcher.find_matches. Loading the embedding model or encoding with
\* it may fail (enc = "fails"), and max() of an empty range raises
\* ValueError; whatever is raised inside the try is raised again by line 134.
find_matches(cfg, poly, kalshi, threshold_arg, sim, enc) ==
    LET threshold == OrDefault(threshold_arg, cfg.SIMILARITY_THRESHOLD)
        poly_market_map == PolyMarketMap(poly, 1)
        kalshi_market_map == KalshiMarketMap(kalshi, 1)
    IN  IF poly = <<>> THEN ReturnsEmpty
        ELSE IF kalshi = <<>> THEN ReturnsEmpty
        ELSE IF NothingToEncode(poly_market_map, kalshi_market_map)
        THEN ReturnsEmpty
        ELSE IF enc = "fails" THEN Raises
        ELSE IF kalshi_market_map = <<>> THEN Raises
        ELSE LET res == MatchLoop(poly_market_map, kalshi_market_map, sim,
                                  threshold, 1, <<>>, <<>>)
             IN  [matches |-> res.matches, best |-> res.best, raised |-> FALSE]

\* the texts of the markets, and the scores the embedding model may give
Questions == {"a", "b"}
FullTitles == { <<"x">>, <<"x", "s">> }
Scores == {80, 85, 90}

\* market number i of a venue listing has identifier i
PolyMarketLists ==
    UNION { { [i \in 1..n |-> [question |-> q[i], condition_id |-> i]] :
                q \in [1..n -> Questions \cup {NoKey}] } : n \in 0..MaxPoly }

KalshiMarketKinds ==
    { [title |-> NoKey, subtitle |-> NoKey],
      [title |-> "x", subtitle |-> NoKey],
      [title |-> "x", subtitle |-> "s"] }

KalshiMarketLists ==
    UNION { { [j \in 1..n |-> [title |-> k[j].title, subtitle |-> k[j].subtitle,
                               ticker |-> j]] :
                k \in [1..n -> KalshiMarketKinds] } : n \in 0..MaxKalshi }

ThresholdArgs == {NoneF, F(0), F(90)}

MatchInit ==
    /\ polymarket_markets \in PolyMarketLists
    /\ kalshi_markets \in KalshiMarketLists
    /\ similarity_threshold \in ThresholdArgs
    /\ encoder \in {"ok", "fails"}
    /\ cos_sim \in [Questions \X FullTitles -> Scores]
    /\ best = <<>>
    /\ match_list = <<>>
    /\ match_pc = "ready"
    /\ _model = None
    /\ model_loads = 0

\* whether find_matches gets to lines 98-99, where self.model is read
UsesModel(poly, kalshi) ==
    /\ poly # <<>>
    /\ kalshi # <<>>
    /\ ~NothingToEncode(PolyMarketMap(poly, 1), KalshiMarketMap(kalshi, 1))

\* the property MarketMatcher.model: an object whose _model is None loads a
\* SentenceTransformer and keeps it, any other hands back the one it has
LoadModel(m) ==
    IF m = None
    THEN [_model |-> "SentenceTransformer", loads |-> 1]
    ELSE [_model |-> m, loads |-> 0]

FindMatches ==
    /\ match_pc = "ready"
    /\ LET res == find_matches(config, polymarket_markets, kalshi_markets,
                               similarity_threshold, cos_sim, encoder)
           ld == LoadModel(_model)
       IN  /\ match_list' = res.matches
           /\ best' = res.best
           /\ match_pc' = IF res.raised THEN "raised" ELSE "done"
           /\ IF UsesModel(polymarket_markets, kalshi_markets) /\ encoder = "ok"
              THEN /\ _model' = ld._model
                   /\ model_loads' = model_loads + ld.loads
              ELSE UNCHANGED <<_model, model_loads>>
    /\ UNCHANGED <<polymarket_markets, kalshi_markets, similarity_threshold,
                   encoder, cos_sim>>

-----------------------------------------------------------------------------
(* scan_all_matches: the loop, one match per step; the venues answer each
   lookup afresh *)

\* mutant: the test "if opportunity" is lost, None is appended too
AppendOpportunity_Always(opps, out) == Append(opps, out.value)

\* lines 173-174 of the loop body
AppendOpportunity(opps, out) ==
    IF out.value # NoneOpportunity THEN Append(opps, out.value) ELSE opps

\* one pass of the loop body for match: subscripting a key the match lacks
\* raises KeyError before check_opportunity is called; whatever is raised is
\* caught and the loop goes on
ScanIteration(det, cfg, cl, opps, outs, cls, match, polyResponse, kalshiResponse) ==
    IF match.polymarket_id = NoKey \/ match.kalshi_ticker = NoKey
    THEN [opportunities |-> opps,
          outcomes |-> Append(outs, [raised |-> TRUE, stage |-> "raised",
                                     value |-> NoneOpportunity]),
          calls |-> cls, clients |-> cl]
    ELSE LET out == check_opportunity(det, cfg, cl, match.polymarket_id,
                                      match.kalshi_ticker,
                                      polyResponse, kalshiResponse)
         IN  [opportunities |-> IF out.raised THEN opps
                                ELSE AppendOpportunity(opps, out),
              outcomes |-> Append(outs, [raised |-> out.raised,
                                         stage |-> out.stage,
                                         value |-> out.value]),
              calls |-> Append(cls, <<match.polymarket_id, match.kalshi_ticker>>),
              clients |-> out.clients]

\* the matched markets scanned: two stored pairs and a dict without id
ScanPairs ==
    { [polymarket_id |-> "p1", kalshi_ticker |-> "k1"],
      [polymarket_id |-> "p2", kalshi_ticker |-> "k1"],
      [polymarket_id |-> NoKey, kalshi_ticker |-> "k2"] }

ScanPolyResponses ==
    { ErrorResponse,
      [status |-> "ok", yes |-> F(400), no |-> F(600)],
      [status |-> "ok", yes |-> F(600), no |-> F(400)] }
ScanKalshiResponses ==
    { ErrorResponse, [status |-> "ok", yes |-> F(45), no |-> F(55)] }

\* live with all credentials, live without the Kalshi key, mock mode
ScanConfigs ==
    { [DefaultConfig EXCEPT !.MOCK_MODE = FALSE, !.POLY_PRIVATE_KEY = "key",
                            !.KALSHI_KEY_ID = "id", !.KALSHI_PRIVATE_KEY = "pem"],
      [DefaultConfig EXCEPT !.MOCK_MODE = FALSE, !.POLY_PRIVATE_KEY = "key"],
      DefaultConfig }

\* scan_all_matches is entered: lines 157-160
ScanInit ==
    /\ config \in ScanConfigs
    /\ detector = ArbitrageDetector(config, NoneF, NoneF, NoneF)
    /\ clients = NoClients
    /\ pending = NoCall
    /\ chk = Idle
    /\ matched_markets \in SeqsUpTo(ScanPairs, MaxPairs)
    /\ scan_i = 1
    /\ opportunities = <<>>
    /\ outcomes = <<>>
    /\ calls = <<>>
    /\ scan_pc = "loop"

ScanStep ==
    /\ scan_pc = "loop"
    /\ scan_i <= Len(matched_markets)
    /\ \E polyResponse \in ScanPolyResponses :
       \E kalshiResponse \in ScanKalshiResponses :
         LET it == ScanIteration(detector, config, clients, opportunities,
                                 outcomes, calls, matched_markets[scan_i],
                                 polyResponse, kalshiResponse)
         IN  /\ opportunities' = it.opportunities
             /\ outcomes' = it.outcomes
             /\ calls' = it.calls
             /\ clients' = it.clients
    /\ scan_i' = scan_i + 1
    /\ UNCHANGED <<config, detector, pending, chk, matched_markets, scan_pc>>

\* the loop is through: opportunities is returned
ScanReturn ==
    /\ scan_pc = "loop"
    /\ scan_i > Len(matched_markets)
    /\ scan_pc' = "done"
    /\ UNCHANGED <<detVars, matched_markets, scan_i, opportunities, outcomes,
                   calls>>

ScanSpecInit == StoreInit /\ ScanInit /\ MatchIdle /\ PipeIdle
ScanNext == (ScanStep \/ ScanReturn) /\ UNCHANGED <<storeVars, matchVars, pipeVars>>
ScanSpec == ScanSpecInit /\ [][ScanNext]_vars

-----------------------------------------------------------------------------
(* The matcher on its own: one call, its inputs drawn at the start *)

MatchSpecInit == StoreInit /\ DetIdle /\ ScanIdle /\ MatchInit /\ PipeIdle
MatchNext == FindMatches /\ UNCHANGED <<storeVars, detVars, scanVars, pipeVars>>
MatchSpec == MatchSpecInit /\ [][MatchNext]_vars

-----------------------------------------------------------------------------
(* The script main.py: it fetches the two listings and calls its own
   find_best_matches once, with the threshold left at its default.  The
   function embeds title + subtitle (find_matches puts a space between them);
   the score drawn for a question and a title with its subtitle stands for
   that text's. *)

MainSimilarityThreshold == 90     \* 0.9, in hundredths

\* the loop over poly_markets from index i on: i counts the markets of the
\* listing, whereas the rows of similarities and the entries of
\* similarity_scores are those of the markets that have text
RECURSIVE BestMatchesLoop(_, _, _, _, _, _, _, _, _)
BestMatchesLoop(poly, kalshi, poly_questions, kalshi_titles, sim, threshold, i, found, bests) ==
    IF i > Len(poly)
    THEN [matches |-> found, best |-> bests, raised |-> FALSE]
    ELSE LET p_market == poly[i]
         IN  IF p_market.question = NoKey
             THEN BestMatchesLoop(poly, kalshi, poly_questions,
                                  kalshi_titles, sim, threshold, i + 1, found,
                                  bests)
             ELSE IF i > Len(poly_questions) THEN Raises
             ELSE IF kalshi_titles = <<>> THEN Raises
             ELSE
             LET similarity_scores ==
                     [j \in 1..Len(kalshi_titles) |->
                         sim[<<poly_questions[i], kalshi_titles[j]>>]]
                 best_match_index == BestMatchIndex(similarity_scores, 2, 1)
                 best_match_score == similarity_scores[best_match_index]
                 k_market == kalshi[best_match_index]
                 b == [polymarket_id |-> p_market.condition_id,
                       kalshi_ticker |-> k_market.ticker,
                       best_match_score |-> best_match_score]
             IN  IF best_match_score >= threshold
                 THEN IF k_market.title = NoKey THEN Raises
                      ELSE BestMatchesLoop(poly, kalshi,
                               poly_questions, kalshi_titles, sim, threshold,
                               i + 1,
                               Append(found,
                                   [polymarket_question |-> p_market.question,
                                    kalshi_title |-> k_market.title,
                                    polymarket_id |-> p_market.condition_id,
                                    kalshi_ticker |-> k_market.ticker,
                                    similarity_score |-> best_match_score]),
                               Append(bests, b))
                 ELSE BestMatchesLoop(poly, kalshi,
                          poly_questions, kalshi_titles, sim, threshold, i + 1,
                          found, Append(bests, b))

\* main.find_best_matches. A market that has a title and no subtitle makes
\* line 81 raise KeyError; nothing in the function or in the script catches
\* what is raised.
find_best_matches(poly, kalshi, threshold, sim) ==
    LET with_question == PolyMarketMap(poly, 1)
        with_title == KalshiMarketMap(kalshi, 1)
        poly_questions ==
            [i \in 1..Len(with_question) |-> with_question[i].question]
        kalshi_titles ==
            [j \in 1..Len(with_title) |-> full_title(with_title[j])]
    IN  IF \E j \in 1..Len(with_title) : with_title[j].subtitle = NoKey
        THEN Raises
        ELSE BestMatchesLoop(poly, kalshi, poly_questions,
                             kalshi_titles, sim, threshold, 1,
                             <<>>, <<>>)

\* the listings of the two venues: market number i has identifier i, and
\* each listing has a market with text
MainPolyMarkets(questions) ==
    [i \in 1..Len(questions) |-> [question |-> questions[i], condition_id |-> i]]
MainKalshiMarkets(kinds) ==
    [j \in 1..Len(kinds) |->
        [title |-> kinds[j][1], subtitle |-> kinds[j][2], ticker |-> j]]
MainPolyListings ==
    { MainPolyMarkets(<<"a">>), MainPolyMarkets(<<"a", "b">>),
      MainPolyMarkets(<<"a", NoKey>>), MainPolyMarkets(<<NoKey, "b">>) }
MainKalshiListings ==
    { MainKalshiMarkets(<< <<"x", "">>, <<"x", "s">> >>),
      MainKalshiMarkets(<< <<"x", "s">>, <<NoKey, NoKey>> >>),
      MainKalshiMarkets(<< <<NoKey, NoKey>>, <<"x", "">>, <<"x", "s">> >>),
      MainKalshiMarkets(<< <<"x", NoKey>>, <<"x", "s">> >>) }

MainInit ==
    /\ polymarket_markets \in MainPolyListings
    /\ kalshi_markets \in MainKalshiListings
    /\ similarity_threshold = F(MainSimilarityThreshold)
    /\ encoder = "ok"
    /\ cos_sim \in [Questions \X FullTitles -> Scores]
    /\ best = <<>>
    /\ match_list = <<>>
    /\ match_pc = "ready"
    /\ _model = None
    /\ model_loads = 0

\* the call of line 144
FindBestMatches ==
    /\ match_pc = "ready"
    /\ LET res == find_best_matches(polymarket_markets, kalshi_markets,
                                    similarity_threshold[1], cos_sim)
       IN  /\ match_list' = res.matches
           /\ best' = res.best
           /\ match_pc' = IF res.raised THEN "raised" ELSE "done"
    /\ UNCHANGED <<polymarket_markets, kalshi_markets, similarity_threshold,
                   encoder, cos_sim, _model, model_loads>>

MainSpecInit == StoreInit /\ DetIdle /\ ScanIdle /\ MainInit /\ PipeIdle
MainNext == FindBestMatches /\ UNCHANGED <<storeVars, detVars, scanVars, pipeVars>>
MainSpec == MainSpecInit /\ [][MainNext]_vars

-----------------------------------------------------------------------------
(* The orchestrator run.py: run_continuous_monitoring calls run_full_pipeline
   at once and then whenever the scheduled job is due; a cycle is one
   run_full_pipeline call.  Every call that touches the database file may
   fail (the file is locked, the disk is full), and so may the venues. *)

MaxCycles == 2       \* cycles the model lets run_continuous_monitoring begin

\* a venue's answer to get_markets, all pages together
ListingError == [status |-> "error", data |-> <<>>]
Listing(markets) == [status |-> "ok", data |-> markets]

PolyMarket(q, id) == [question |-> q, condition_id |-> id]
KalshiMarket(t, st, tk) == [title |-> t, subtitle |-> st, ticker |-> tk]

\* the second list has market p1 under another question
PolyListings ==
    { ListingError, Listing(<<>>),
      Listing(<<PolyMarket("a", "p1"), PolyMarket("b", "p2")>>),
      Listing(<<PolyMarket("b", "p1")>>) }
KalshiListings ==
    { ListingError, Listing(<<>>),
      Listing(<<KalshiMarket("x", NoKey, "k1"), KalshiMarket("x", "s", "k2")>>) }

\* what the embedding model may make of the texts: every pair equally
\* similar, at, above or below the threshold
PipeSims ==
    { [p \in Questions \X FullTitles |-> sc] : sc \in Scores }

\* mutant: without a client the listing is delivered all the same
fetch_polymarket_markets_NoClientCheck(cfg, cl, response) ==
    LET c == get_polymarket_client(cfg, cl)
    IN  IF c.raised
        THEN [raised |-> TRUE, markets |-> <<>>, clients |-> c.clients]
        ELSE IF response.status = "error"
        THEN [raised |-> TRUE, markets |-> <<>>, clients |-> c.clients]
        ELSE [raised |-> FALSE, markets |-> response.data, clients |-> c.clients]

\* api_clients.fetch_polymarket_markets
fetch_polymarket_markets(cfg, cl, response) ==
    LET c == get_polymarket_client(cfg, cl)
    IN  IF c.raised
        THEN [raised |-> TRUE, markets |-> <<>>, clients |-> c.clients]
        ELSE IF c.client = None
        THEN [raised |-> FALSE, markets |-> <<>>, clients |-> c.clients]
        ELSE IF response.status = "error"
        THEN [raised |-> TRUE, markets |-> <<>>, clients |-> c.clients]
        ELSE [raised |-> FALSE, markets |-> response.data, clients |-> c.clients]

\* api_clients.fetch_kalshi_markets
fetch_kalshi_markets(cfg, cl, response) ==
    LET c == get_kalshi_client(cfg, cl)
    IN  IF c.raised
        THEN [raised |-> TRUE, markets |-> <<>>, clients |-> c.clients]
        ELSE IF c.client = None
        THEN [raised |-> FALSE, markets |-> <<>>, clients |-> c.clients]
        ELSE IF response.status = "error"
        THEN [raised |-> TRUE, markets |-> <<>>, clients |-> c.clients]
        ELSE [raised |-> FALSE, markets |-> response.data, clients |-> c.clients]

\* mutant: after the Phase 1 it called, run_arbitrage_scan tests the store
\* anew and calls Phase 1 again while it is empty
AfterPhase1_Retry(ev, clr, ret) ==
    IF ret
    THEN [events |-> Append(ev, "p1_true"),
          pc |-> IF clr = "pipeline" THEN "p2_db" ELSE "p2_load"]
    ELSE IF clr = "pipeline"
    THEN [events |-> Append(ev, "p1_false"), pc |-> "pipeline_return"]
    ELSE [events |-> ev \o <<"p1_false", "p2_false">>, pc |-> "pipeline_return"]

\* mutant: run_full_pipeline does not look at what Phase 1 returned
AfterPhase1_IgnoresFailure(ev, clr, ret) ==
    IF clr = "pipeline"
    THEN [events |-> Append(ev, IF ret THEN "p1_true" ELSE "p1_false"),
          pc |-> "p2_db"]
    ELSE IF ret
    THEN [events |-> Append(ev, "p1_true"), pc |-> "p2_reload"]
    ELSE [events |-> ev \o <<"p1_false", "p2_false">>, pc |-> "pipeline_return"]

\* mutant: after the Phase 1 it called, run_arbitrage_scan scans the list it
\* loaded before
AfterPhase1_NoReload(ev, clr, ret) ==
    IF ret
    THEN [events |-> Append(ev, "p1_true"),
          pc |-> IF clr = "pipeline" THEN "p2_db" ELSE "p2_scan_empty"]
    ELSE IF clr = "pipeline"
    THEN [events |-> Append(ev, "p1_false"), pc |-> "pipeline_return"]
    ELSE [events |-> ev \o <<"p1_false", "p2_false">>, pc |-> "pipeline_return"]

\* run_market_matching returns ret to the caller clr: run_full_pipeline goes
\* on to Phase 2 or returns (lines 130-136), run_arbitrage_scan reloads or
\* returns False (lines 82-84)
AfterPhase1(ev, clr, ret) ==
    IF ret
    THEN [events |-> Append(ev, "p1_true"),
          pc |-> IF clr = "pipeline" THEN "p2_db" ELSE "p2_reload"]
    ELSE IF clr = "pipeline"
    THEN [events |-> Append(ev, "p1_false"), pc |-> "pipeline_return"]
    ELSE [events |-> ev \o <<"p1_false", "p2_false">>, pc |-> "pipeline_return"]

\* mutant: what goes wrong in Phase 2 is not caught, neither by
\* run_arbitrage_scan nor by run_full_pipeline
AfterPhase2_Raises(ev, ret) ==
    IF ret
    THEN [events |-> Append(ev, "p2_true"), pc |-> "pipeline_return"]
    ELSE [events |-> ev, pc |-> "exited"]

\* run_arbitrage_scan returns ret; run_full_pipeline does not look at it
AfterPhase2(ev, ret) ==
    [events |-> Append(ev, IF ret THEN "p2_true" ELSE "p2_false"),
     pc |-> "pipeline_return"]

\* what the database file holds when the process starts: nothing, or a row
\* that an earlier run stored
StoredBefore ==
    { {},
      { NewRow(0, [polymarket_question |-> "a", kalshi_title |-> "x",
                   polymarket_id |-> "p1", kalshi_ticker |-> "k1",
                   similarity_score |-> 90], 0) } }

PipeInit ==
    /\ rows \in StoredBefore
    /\ seq = Cardinality(rows)
    /\ clock = 0
    /\ lastOp = [op |-> "init", arg |-> <<>>, ret |-> 0, before |-> {},
                 repeat |-> FALSE]
    /\ config \in ScanConfigs
    /\ detector = ArbitrageDetector(config, NoneF, NoneF, NoneF)
    /\ clients = NoClients
    /\ pending = NoCall
    /\ chk = Idle
    /\ ScanIdle
    /\ MatchIdle
    /\ pipe_pc = "start"
    /\ caller = "pipeline"
    /\ cycle = 0
    /\ running = 0
    /\ due = FALSE
    /\ events = <<>>
    /\ send_i = 1
    /\ sent = <<>>
    /\ deliveries = <<>>
    /\ alert_method \in {"console", "discord"}

\* run_full_pipeline is entered
BeginCycle ==
    /\ cycle' = cycle + 1
    /\ running' = running + 1
    /\ events' = <<>>
    /\ sent' = <<>>
    /\ deliveries' = <<>>
    /\ send_i' = 1
    /\ caller' = "pipeline"
    /\ pipe_pc' = "p1_db"
    /\ UNCHANGED <<due, alert_method, storeVars, detVars, scanVars, matchVars>>

\* line 162: the first cycle is run at once
StartupCycle ==
    /\ pipe_pc = "start"
    /\ BeginCycle

\* mutant: the scheduler starts a due job in a thread of its own
CanRunPending_Threaded(pc) == pc # "start"

\* lines 169-171: schedule.run_pending() is called from the one loop of the
\* one thread, hence only while no cycle is under way
CanRunPending(pc) == pc = "wait"

\* line 170: the job is due and run_pending calls run_full_pipeline
RunPending ==
    /\ CanRunPending(pipe_pc)
    /\ due
    /\ cycle < MaxCycles
    /\ BeginCycle

\* the interval of the scheduled job elapses, whatever the bot is doing
JobDue ==
    /\ pipe_pc \notin {"start", "exited"}
    /\ ~due
    /\ due' = TRUE
    /\ UNCHANGED <<pipe_pc, caller, cycle, running, events, send_i, sent,
                   deliveries, alert_method, storeVars, detVars, scanVars,
                   matchVars>>

\* a second passes
PipeTick ==
    /\ Tick
    /\ UNCHANGED <<detVars, scanVars, matchVars, pipeVars>>

\* run_full_pipeline returns and the locals of the cycle are gone; a job run
\* by run_pending is scheduled anew
PipelineReturn ==
    /\ pipe_pc = "pipeline_return"
    /\ pipe_pc' = "wait"
    /\ running' = running - 1
    /\ due' = IF cycle > 1 THEN FALSE ELSE due
    /\ caller' = "pipeline"
    /\ events' = <<>>
    /\ send_i' = 1
    /\ sent' = <<>>
    /\ deliveries' = <<>>
    /\ matched_markets' = <<>>
    /\ scan_i' = 1
    /\ opportunities' = <<>>
    /\ outcomes' = <<>>
    /\ calls' = <<>>
    /\ scan_pc' = "idle"
    /\ polymarket_markets' = <<>>
    /\ kalshi_markets' = <<>>
    /\ similarity_threshold' = NoneF
    /\ encoder' = "ok"
    /\ cos_sim' = <<>>
    /\ best' = <<>>
    /\ match_list' = <<>>
    /\ match_pc' = "idle"
    /\ _model' = None
    /\ UNCHANGED <<cycle, alert_method, storeVars, detVars, model_loads>>

\* Ctrl+C: KeyboardInterrupt is no Exception, none of the handlers of lines
\* 60, 115 and 144 catches it; the loop ends (line 172) or the interrupt
\* leaves run_continuous_monitoring, and the process is over
Interrupt ==
    /\ pipe_pc # "exited"
    /\ pipe_pc' = "exited"
    /\ running' = 0
    /\ caller' = "pipeline"
    /\ events' = <<"KeyboardInterrupt">>
    /\ send_i' = 1
    /\ sent' = <<>>
    /\ deliveries' = <<>>
    /\ matched_markets' = <<>>
    /\ scan_i' = 1
    /\ opportunities' = <<>>
    /\ outcomes' = <<>>
    /\ calls' = <<>>
    /\ scan_pc' = "idle"
    /\ polymarket_markets' = <<>>
    /\ kalshi_markets' = <<>>
    /\ similarity_threshold' = NoneF
    /\ encoder' = "ok"
    /\ cos_sim' = <<>>
    /\ best' = <<>>
    /\ match_list' = <<>>
    /\ match_pc' = "idle"
    /\ _model' = None
    /\ UNCHANGED <<cycle, due, alert_method, storeVars, detVars, model_loads>>

\* ---- run_market_matching ----

\* lines 27-28: DatabaseManager() initialises the schema, which may fail;
\* the locals of the call are fresh, matcher is a new MarketMatcher object
P1_OpenStore ==
    /\ pipe_pc = "p1_db"
    /\ \E ok \in BOOLEAN :
         IF ok
         THEN /\ events' = Append(events, "schema")
              /\ pipe_pc' = "p1_fetch_poly"
         ELSE LET r == AfterPhase1(Append(events, "schema_failed"), caller, FALSE)
              IN  /\ events' = r.events
                  /\ pipe_pc' = r.pc
    /\ polymarket_markets' = <<>>
    /\ kalshi_markets' = <<>>
    /\ similarity_threshold' = NoneF
    /\ encoder' = "ok"
    /\ cos_sim' = <<>>
    /\ best' = <<>>
    /\ match_list' = <<>>
    /\ match_pc' = "idle"
    /\ _model' = None
    /\ UNCHANGED <<caller, cycle, running, due, send_i, sent, deliveries,
                   alert_method, storeVars, detVars, scanVars, model_loads>>

\* line 32
P1_FetchPoly ==
    /\ pipe_pc = "p1_fetch_poly"
    /\ \E response \in PolyListings :
         LET f == fetch_polymarket_markets(config, clients, response)
             r == AfterPhase1(Append(events, "fetch_poly_failed"), caller, FALSE)
         IN  /\ clients' = f.clients
             /\ IF f.raised
                THEN /\ events' = r.events
                     /\ pipe_pc' = r.pc
                     /\ UNCHANGED polymarket_markets
                ELSE /\ events' = Append(events, "fetch_poly")
                     /\ pipe_pc' = "p1_fetch_kalshi"
                     /\ polymarket_markets' = f.markets
    /\ UNCHANGED <<caller, cycle, running, due, send_i, sent, deliveries,
                   alert_method, storeVars, config, detector, pending, chk,
                   scanVars, kalshi_markets, similarity_threshold, encoder,
                   cos_sim, best, match_list, match_pc, _model, model_loads>>

\* lines 33-48: the second listing, the test of line 35 and the arguments of
\* find_matches
P1_FetchKalshi ==
    /\ pipe_pc = "p1_fetch_kalshi"
    /\ \E response \in KalshiListings :
         LET f == fetch_kalshi_markets(config, clients, response)
             failed == AfterPhase1(Append(events, "fetch_kalshi_failed"), caller, FALSE)
             none == AfterPhase1(events \o <<"fetch_kalshi", "no_markets">>, caller, FALSE)
         IN  /\ clients' = f.clients
             /\ IF f.raised
                THEN /\ events' = failed.events
                     /\ pipe_pc' = failed.pc
                     /\ UNCHANGED <<kalshi_markets, similarity_threshold,
                                    encoder, cos_sim, match_pc>>
                ELSE IF polymarket_markets = <<>> \/ f.markets = <<>>
                THEN /\ events' = none.events
                     /\ pipe_pc' = none.pc
                     /\ kalshi_markets' = f.markets
                     /\ UNCHANGED <<similarity_threshold, encoder, cos_sim,
                                    match_pc>>
                ELSE /\ events' = Append(events, "fetch_kalshi")
                     /\ pipe_pc' = "p1_find"
                     /\ kalshi_markets' = f.markets
                     /\ similarity_threshold' = F(config.SIMILARITY_THRESHOLD)
                     /\ encoder' \in {"ok", "fails"}
                     /\ cos_sim' \in PipeSims
                     /\ match_pc' = "ready"
    /\ UNCHANGED <<caller, cycle, running, due, send_i, sent, deliveries,
                   alert_method, storeVars, config, detector, pending, chk,
                   scanVars, polymarket_markets, best, match_list, _model,
                   model_loads>>

\* lines 45-49
P1_FindMatches ==
    /\ pipe_pc = "p1_find"
    /\ FindMatches
    /\ LET r == AfterPhase1(Append(events, "find_matches_raised"), caller, FALSE)
       IN  IF match_pc' = "raised"
           THEN /\ events' = r.events
                /\ pipe_pc' = r.pc
           ELSE /\ events' = Append(events, "find_matches")
                /\ pipe_pc' = "p1_store"
    /\ UNCHANGED <<caller, cycle, running, due, send_i, sent, deliveries,
                   alert_method, storeVars, detVars, scanVars>>

\* lines 51-55: store_matches opens a connection and commits, which may fail
\* and then leaves the table as it was
P1_Store ==
    /\ pipe_pc = "p1_store"
    /\ IF match_list = <<>>
       THEN /\ pipe_pc' = "p1_count"
            /\ UNCHANGED <<events, rows, seq, lastOp>>
       ELSE \E ok \in BOOLEAN :
              LET res == store_matches(rows, seq, clock, match_list)
                  r == AfterPhase1(Append(events, "store_failed"), caller, FALSE)
              IN  IF ok
                  THEN /\ rows' = res.rows
                       /\ seq' = res.seq
                       /\ lastOp' = [op |-> "store", arg |-> match_list,
                                     ret |-> res.ret, before |-> rows,
                                     repeat |-> FALSE]
                       /\ events' = Append(events, "store")
                       /\ pipe_pc' = "p1_count"
                  ELSE /\ events' = r.events
                       /\ pipe_pc' = r.pc
                       /\ UNCHANGED <<rows, seq, lastOp>>
    /\ UNCHANGED <<caller, cycle, running, due, send_i, sent, deliveries,
                   alert_method, clock, detVars, scanVars, matchVars>>

\* lines 57-58: get_match_count answers 0 when the query fails (database.py
\* lines 274-277), so the phase returns True either way
P1_Count ==
    /\ pipe_pc = "p1_count"
    /\ \E ok \in BOOLEAN :
         LET r == AfterPhase1(Append(events, IF ok THEN "count" ELSE "count_failed"),
                              caller, TRUE)
         IN  /\ events' = r.events
             /\ pipe_pc' = r.pc
    /\ UNCHANGED <<caller, cycle, running, due, send_i, sent, deliveries,
                   alert_method, storeVars, detVars, scanVars, matchVars>>

\* ---- run_arbitrage_scan ----

\* lines 73-75: the store, a detector with the configured parameters and the
\* notifier; the locals of the call are fresh
P2_OpenStore ==
    /\ pipe_pc = "p2_db"
    /\ \E ok \in BOOLEAN :
         LET r == AfterPhase2(Append(events, "schema_failed"), FALSE)
         IN  IF ok
             THEN /\ events' = Append(events, "schema")
                  /\ pipe_pc' = "p2_load"
             ELSE /\ events' = r.events
                  /\ pipe_pc' = r.pc
    /\ detector' = ArbitrageDetector(config, NoneF, NoneF, NoneF)
    /\ matched_markets' = <<>>
    /\ scan_i' = 1
    /\ opportunities' = <<>>
    /\ outcomes' = <<>>
    /\ calls' = <<>>
    /\ scan_pc' = "idle"
    /\ UNCHANGED <<caller, cycle, running, due, send_i, sent, deliveries,
                   alert_method, storeVars, config, clients, pending, chk,
                   matchVars>>

\* db.get_all_matches() of lines 78 and 84: the query may fail, else one of
\* the lists it may deliver becomes matched_markets
LoadMatches(next_pc_if_empty) ==
    \E ok \in BOOLEAN :
      LET r == AfterPhase2(Append(events, "get_all_failed"), FALSE)
      IN  IF ok
          THEN \E res \in get_all_matches(rows) :
                 /\ matched_markets' = res
                 /\ lastOp' = [op |-> "getAll", arg |-> <<>>, ret |-> res,
                               before |-> rows, repeat |-> FALSE]
                 /\ events' = Append(events, "get_all")
                 /\ IF res = <<>>
                    THEN /\ pipe_pc' = next_pc_if_empty
                         /\ UNCHANGED scan_pc
                    ELSE /\ pipe_pc' = "p2_scan"
                         /\ scan_pc' = "loop"
          ELSE /\ events' = r.events
               /\ pipe_pc' = r.pc
               /\ UNCHANGED <<matched_markets, lastOp, scan_pc>>

\* lines 78-82: with nothing stored, run_market_matching is called first
P2_GetAll ==
    /\ pipe_pc = "p2_load"
    /\ LoadMatches("p1_db")
    /\ caller' = IF pipe_pc' = "p1_db" THEN "scan" ELSE caller
    /\ UNCHANGED <<cycle, running, due, send_i, sent, deliveries,
                   alert_method, rows, seq, clock, detVars, scan_i,
                   opportunities, outcomes, calls, matchVars>>

\* line 84: the store is read again, and scanned whatever it holds
P2_Reload ==
    /\ pipe_pc = "p2_reload"
    /\ LoadMatches("p2_scan_empty")
    /\ UNCHANGED <<caller, cycle, running, due, send_i, sent, deliveries,
                   alert_method, rows, seq, clock, detVars, scan_i,
                   opportunities, outcomes, calls, matchVars>>

\* line 89 with an empty list: scan_all_matches starts
P2_ScanEmpty ==
    /\ pipe_pc = "p2_scan_empty"
    /\ pipe_pc' = "p2_scan"
    /\ scan_pc' = "loop"
    /\ UNCHANGED <<caller, cycle, running, due, events, send_i, sent,
                   deliveries, alert_method, storeVars, detVars,
                   matched_markets, scan_i, opportunities, outcomes, calls,
                   matchVars>>

\* line 89: one pass of the loop of scan_all_matches
P2_ScanStep ==
    /\ pipe_pc = "p2_scan"
    /\ ScanStep
    /\ UNCHANGED <<storeVars, matchVars, pipeVars>>

\* lines 89-92 and 109-113: scan_all_matches returns
P2_ScanReturn ==
    /\ pipe_pc = "p2_scan"
    /\ ScanReturn
    /\ LET r == AfterPhase2(Append(events, "scan"), TRUE)
       IN  IF opportunities = <<>>
           THEN /\ events' = r.events
                /\ pipe_pc' = r.pc
           ELSE /\ events' = Append(events, "scan")
                /\ pipe_pc' = "p2_send"
    /\ UNCHANGED <<caller, cycle, running, due, send_i, sent, deliveries,
                   alert_method, storeVars, matchVars>>

\* NotificationService.send_alert: the console takes every message; a
\* Discord or Telegram alert counts as sent when the webhook is configured
\* and answers with success, every failure is turned into False
send_alert(method, delivered) ==
    IF method = "discord" THEN delivered
    ELSE IF method = "telegram" THEN delivered
    ELSE TRUE

\* mutant: the loop is left at the first alert that was not delivered
NextToSend_StopOnFailure(i, ret, n) == IF ret THEN i + 1 ELSE n + 1

\* lines 95-101: the value of send_alert is not looked at, the loop goes on
NextToSend(i, ret, n) == i + 1

\* lines 95-101: one pass of the loop over opportunities
P2_SendAlert ==
    /\ pipe_pc = "p2_send"
    /\ send_i <= Len(opportunities)
    /\ \E delivered \in BOOLEAN :
         LET ret == send_alert(alert_method, delivered)
         IN  /\ sent' = Append(sent, opportunities[send_i])
             /\ deliveries' = Append(deliveries, ret)
             /\ send_i' = NextToSend(send_i, ret, Len(opportunities))
    /\ events' = Append(events, "send")
    /\ UNCHANGED <<pipe_pc, caller, cycle, running, due, alert_method,
                   storeVars, detVars, scanVars, matchVars>>

\* lines 104-113: the summary, and True is returned
P2_Summary ==
    /\ pipe_pc = "p2_send"
    /\ send_i > Len(opportunities)
    /\ LET r == AfterPhase2(Append(events, "summary"), TRUE)
       IN  /\ events' = r.events
           /\ pipe_pc' = r.pc
    /\ UNCHANGED <<caller, cycle, running, due, send_i, sent, deliveries,
                   alert_method, storeVars, detVars, scanVars, matchVars>>

PipeNext ==
    \/ StartupCycle \/ RunPending \/ JobDue \/ PipeTick \/ PipelineReturn
    \/ Interrupt
    \/ P1_OpenStore \/ P1_FetchPoly \/ P1_FetchKalshi \/ P1_FindMatches
    \/ P1_Store \/ P1_Count
    \/ P2_OpenStore \/ P2_GetAll \/ P2_Reload \/ P2_ScanEmpty
    \/ P2_ScanStep \/ P2_ScanReturn \/ P2_SendAlert \/ P2_Summary

PipelineSpec == PipeInit /\ [][PipeNext]_vars

-----------------------------------------------------------------------------
(* The Match Store on its own *)

Init == StoreInit /\ DetIdle /\ ScanIdle /\ MatchIdle /\ PipeIdle
Next == StoreNext /\ UNCHANGED <<detVars, scanVars, matchVars, pipeVars>>
Spec == Init /\ [][Next]_vars

-----------------------------------------------------------------------------
(* Claims about the Match Store, checked under Spec *)

\* C1: in every reachable state of the store, whatever store_matches,
\* delete_match and clear_all_matches calls led to it, no two rows have the
\* same (polymarket_id, kalshi_ticker) pair.
C1_UniquePair ==
    \A r1 \in rows : \A r2 \in rows : PairKey(r1) = PairKey(r2) => r1 = r2

\* a stored pair was handed to store_matches again, with another score, and
\* the table still holds its one row
C1_Witness ==
    /\ lastOp.op = "store"
    /\ \E i \in DOMAIN lastOp.arg : \E r \in rows :
          /\ PairKey(r) = PairKey(lastOp.arg[i])
          /\ r.similarity_score # lastOp.arg[i].similarity_score
          /\ r \in lastOp.before

\* C2: a store_matches call that directly follows a store_matches call with
\* the same candidate list returns 0 and leaves the rows, and so their
\* number, as they were.
C2_StoreIdempotent ==
    (lastOp.op = "store" /\ lastOp.repeat) =>
        /\ lastOp.ret = 0
        /\ rows = lastOp.before
        /\ get_match_count(rows) = get_match_count(lastOp.before)

\* the same list, with a candidate that the first call stored, was stored twice
C2_Witness ==
    /\ lastOp.op = "store"
    /\ lastOp.repeat
    /\ \E i \in DOMAIN lastOp.arg : \E r \in rows :
          PairKey(r) = PairKey(lastOp.arg[i])

\* C3: the value store_matches returns is the number of rows after the call
\* minus the number of rows before it.
C3_ReturnsNewRows ==
    lastOp.op = "store" =>
        lastOp.ret = get_match_count(rows) - get_match_count(lastOp.before)

\* a list that names one fresh pair twice, next to a stored pair or a
\* candidate that cannot be stored: one row is new
C3_Witness ==
    /\ lastOp.op = "store"
    /\ lastOp.ret = 1
    /\ Len(lastOp.arg) = 2
    /\ PairKey(lastOp.arg[1]) = PairKey(lastOp.arg[2])

-----------------------------------------------------------------------------
(* Claims about check_opportunity, checked under DetectSpec *)

\* check_opportunity was called and has ended
Checked == pending.call = "check_opportunity" /\ chk # Idle

\* both venues delivered both price fields to a client that exists
Fetched ==
    /\ Live(config)
    /\ pending.polyResponse.status = "ok"
    /\ pending.kalshiResponse.status = "ok"
    /\ pending.polyResponse.yes # NoneF /\ pending.polyResponse.no # NoneF
    /\ pending.kalshiResponse.yes # NoneF /\ pending.kalshiResponse.no # NoneF

\* the four prices of the call, in thousandths
SourceYes == pending.polyResponse.yes[1]
SourceNo == pending.polyResponse.no[1]
TargetYes == pending.kalshiResponse.yes[1] * 10
TargetNo == pending.kalshiResponse.no[1] * 10

InUnitRange(price) == 0 <= price /\ price <= PriceOne

AllPricesValid ==
    /\ Fetched
    /\ InUnitRange(SourceYes) /\ InUnitRange(SourceNo)
    /\ InUnitRange(TargetYes) /\ InUnitRange(TargetNo)

\* cost in thousandths, gross and net in millionths
CostOf(strategy) ==
    IF strategy = "Yes-No" THEN SourceYes + TargetNo ELSE SourceNo + TargetYes
GrossOf(strategy) == MarginOne - CostOf(strategy) * 1000
GasTerm == (detector.polymarket_gas_fee * 1000) \div config.MAX_POSITION_USD
UnflooredNetOf(strategy) ==
    GrossOf(strategy) - CostOf(strategy) * detector.kalshi_fee - GasTerm
NetOf(strategy) ==
    IF UnflooredNetOf(strategy) < 0 THEN 0 ELSE UnflooredNetOf(strategy)

StrictPolicy ==
    IF GrossOf("Yes-No") > GrossOf("No-Yes") /\ GrossOf("Yes-No") > 0
    THEN "Yes-No"
    ELSE IF GrossOf("No-Yes") > 0 THEN "No-Yes" ELSE None

\* C4: for four valid prices check_opportunity picks its candidate by the
\* strict policy: Yes-No when its gross margin is greater than that of No-Yes
\* and positive, else No-Yes when that one's is positive, else none and the
\* result is None; equal positive gross margins pick No-Yes, and two gross
\* margins that are not positive give None.
C4_StrictPolicy ==
    (Checked /\ AllPricesValid) =>
        /\ ~chk.raised
        /\ chk.branch = StrictPolicy
        /\ chk.value # NoneOpportunity => chk.value.type = StrictPolicy
        /\ (GrossOf("Yes-No") = GrossOf("No-Yes") /\ GrossOf("No-Yes") > 0)
              => chk.branch = "No-Yes"
        /\ (GrossOf("Yes-No") <= 0 /\ GrossOf("No-Yes") <= 0)
              => chk.value = NoneOpportunity

\* equal positive gross margins, reported as No-Yes
C4_Witness ==
    /\ Checked /\ AllPricesValid
    /\ GrossOf("Yes-No") = GrossOf("No-Yes")
    /\ GrossOf("No-Yes") > 0
    /\ chk.value.type = "No-Yes"

\* C5: when there is a candidate strategy, check_opportunity returns it as an
\* opportunity exactly when net >= min_profit_margin, for
\* net = max(0, gross - cost * kalshi_fee - gas_fee / position_size), and the
\* opportunity carries that net; source-yes 0.40 and target-no 0.55 as the
\* better leg pair, fee rate 0.007, gas term 0.001 and min_profit_margin 0.02
\* give a Yes-No opportunity of cost 0.95, gross 0.05 and net 0.04235.
C5_ReportedIffNetAtLeastMin ==
    (Checked /\ AllPricesValid /\ StrictPolicy # None) =>
        /\ (chk.value # NoneOpportunity)
              <=> (NetOf(StrictPolicy) >= detector.min_profit_margin)
        /\ chk.value # NoneOpportunity =>
              /\ chk.value.type = StrictPolicy
              /\ chk.value.net_profit_margin = NetOf(StrictPolicy)
        /\ ( /\ SourceYes = 400 /\ TargetNo = 550
             /\ GrossOf("Yes-No") > GrossOf("No-Yes")
             /\ detector.kalshi_fee = 7 /\ GasTerm = 1000
             /\ detector.min_profit_margin = 20000 )
              => /\ chk.value.type = "Yes-No"
                 /\ chk.value.total_cost = 950
                 /\ chk.value.gross_profit_margin = 50000
                 /\ chk.value.net_profit_margin = 42350

\* end-to-end scenario 1 of the specification
C5_Witness ==
    /\ Checked /\ AllPricesValid
    /\ SourceYes = 400 /\ TargetNo = 550 /\ SourceNo = 600 /\ TargetYes = 450
    /\ detector.kalshi_fee = 7 /\ GasTerm = 1000
    /\ detector.min_profit_margin = 20000
    /\ chk.value.type = "Yes-No"
    /\ chk.value.net_profit_margin = 42350

\* C6: whatever the prices and the configured min_profit_margin (0 included),
\* a strategy whose net margin before flooring is negative is never returned
\* as an opportunity, and the net margin of a returned opportunity is >= 0.
C6_NegativeNetNeverReported ==
    (Checked /\ AllPricesValid /\ chk.value # NoneOpportunity) =>
        /\ UnflooredNetOf(chk.value.type) >= 0
        /\ chk.value.net_profit_margin >= 0

\* the price fetch of one of the venues fails: no client (mock mode), the
\* client cannot be initialised, the lookup fails, or a price field is missing
FetchFails ==
    \/ ~Live(config)
    \/ pending.polyResponse.status = "error"
    \/ pending.kalshiResponse.status = "error"
    \/ pending.polyResponse.yes = NoneF \/ pending.polyResponse.no = NoneF
    \/ pending.kalshiResponse.yes = NoneF \/ pending.kalshiResponse.no = NoneF

\* C7: if the price fetch of either venue fails in any way, check_opportunity
\* returns None and does not raise.
C7_FetchFailureReturnsNone ==
    (Checked /\ FetchFails) => (~chk.raised /\ chk.value = NoneOpportunity)

\* the four prices as the venues delivered them, in thousandths or missing
DeliveredPrices ==
    { pending.polyResponse.yes, pending.polyResponse.no }
    \cup { IF a = NoneF THEN NoneF ELSE F(a[1] * 10) :
             a \in { pending.kalshiResponse.yes, pending.kalshiResponse.no } }

\* C8: if one of the four prices is missing or outside [0,1], whatever the
\* other three, check_opportunity returns None and does not raise; if all four
\* lie within [0,1], bounds included, validation lets the pair through.
C8_InvalidPricesRejected ==
    /\ ( /\ Checked /\ Live(config)
         /\ pending.polyResponse.status = "ok"
         /\ pending.kalshiResponse.status = "ok" ) =>
          IF \E price \in DeliveredPrices :
                 price = NoneF \/ ~InUnitRange(price[1])
          THEN ~chk.raised /\ chk.value = NoneOpportunity /\ chk.branch = None
          ELSE chk.stage \in {"found", "below_min", "no_candidate"}
    /\ (pending.call = "_validate_prices" /\ chk # Idle) =>
          (chk.ret <=> \A i \in 1..4 :
                          /\ pending.args[i] # NoneF
                          /\ InUnitRange(pending.args[i][1]))

\* three prices on the bounds of [0,1] or within, the fourth outside: rejected
C8_Witness ==
    /\ Checked /\ Fetched
    /\ SourceYes = 0 /\ SourceNo = 1000 /\ TargetYes = 400
    /\ TargetNo = 1010
    /\ chk.stage = "invalid_prices"

-----------------------------------------------------------------------------
(* Claims about scan_all_matches, checked under ScanSpec *)

\* the numbers of the matches whose check returned an opportunity
RECURSIVE Reported(_)
Reported(k) ==
    IF k = 0 THEN <<>>
    ELSE IF ~outcomes[k].raised /\ outcomes[k].value # NoneOpportunity
         THEN Append(Reported(k - 1), outcomes[k].value)
         ELSE Reported(k - 1)

RECURSIVE IdsOfWellFormed(_)
IdsOfWellFormed(k) ==
    IF k = 0 THEN <<>>
    ELSE IF matched_markets[k].polymarket_id # NoKey
            /\ matched_markets[k].kalshi_ticker # NoKey
         THEN Append(IdsOfWellFormed(k - 1),
                     <<matched_markets[k].polymarket_id,
                       matched_markets[k].kalshi_ticker>>)
         ELSE IdsOfWellFormed(k - 1)

\* C9: scan_all_matches checks every pair once, in order; a pair whose check
\* raises or returns None is skipped and the scan goes on; what is returned
\* are the opportunities of the other pairs, in the order of the pairs.
C9_ScanSkipsAndKeepsOrder ==
    scan_pc = "done" =>
        /\ Len(outcomes) = Len(matched_markets)
        /\ calls = IdsOfWellFormed(Len(matched_markets))
        /\ opportunities = Reported(Len(matched_markets))
        /\ \A k \in 1..Len(opportunities) :
              opportunities[k] # NoneOpportunity
        /\ \A k \in 1..Len(matched_markets) :
              (~outcomes[k].raised /\ outcomes[k].value # NoneOpportunity) =>
                  /\ outcomes[k].value.polymarket_id
                        = matched_markets[k].polymarket_id
                  /\ outcomes[k].value.kalshi_ticker
                        = matched_markets[k].kalshi_ticker

\* end-to-end scenario 3: the target fetch fails for the first of three pairs,
\* the other two are reported
C9_Witness ==
    /\ scan_pc = "done"
    /\ Len(matched_markets) = 3
    /\ outcomes[1].stage = "no_kalshi_prices"
    /\ outcomes[2].stage = "found"
    /\ outcomes[3].stage = "found"
    /\ Len(opportunities) = 2
    /\ opportunities[1].polymarket_id = matched_markets[2].polymarket_id
    /\ opportunities[2].polymarket_id = matched_markets[3].polymarket_id

-----------------------------------------------------------------------------
(* Claims about find_matches, checked under MatchSpec *)

\* the positions of the markets that carry text
TextSources ==
    { i \in 1..Len(polymarket_markets) : polymarket_markets[i].question # NoKey }
TextTargets ==
    { j \in 1..Len(kalshi_markets) : kalshi_markets[j].title # NoKey }

\* the similarity of source market i and target market j
Sim(i, j) ==
    cos_sim[<<polymarket_markets[i].question,
              IF kalshi_markets[j].subtitle \in {NoKey, ""}
              THEN <<kalshi_markets[j].title>>
              ELSE <<kalshi_markets[j].title, kalshi_markets[j].subtitle>> >>]

\* target j has the greatest similarity to source i, and is the first such
FirstMaximum(i, j) ==
    /\ j \in TextTargets
    /\ \A k \in TextTargets : Sim(i, k) <= Sim(i, j)
    /\ \A k \in TextTargets : k < j => Sim(i, k) < Sim(i, j)

\* C10: for every source market with text, the counterpart find_matches
\* considers is the target market with text of greatest similarity, and among
\* several of greatest similarity the first in the order of the target list.
C10_BestIsFirstMaximum ==
    (match_pc = "done" /\ TextSources # {} /\ TextTargets # {}) =>
        /\ Len(best) = Cardinality(TextSources)
        /\ \A i \in TextSources :
              \E n \in 1..Len(best) :
                  /\ best[n].polymarket_id = i
                  /\ FirstMaximum(i, best[n].kalshi_ticker)
                  /\ best[n].best_match_score = Sim(i, best[n].kalshi_ticker)
        /\ \A n \in 1..Len(match_list) :
              /\ match_list[n].polymarket_id \in TextSources
              /\ FirstMaximum(match_list[n].polymarket_id, match_list[n].kalshi_ticker)

\* two targets share the greatest similarity to a source, a target without
\* text or of the same score precedes the second; the first is matched
C10_Witness ==
    /\ match_pc = "done"
    /\ \E n \in 1..Len(match_list) : \E k \in TextTargets :
          /\ k > match_list[n].kalshi_ticker
          /\ Sim(match_list[n].polymarket_id, k) = match_list[n].similarity_score

\* the threshold find_matches compares with: line 53
Threshold == OrDefault(similarity_threshold, config.SIMILARITY_THRESHOLD)

\* the greatest similarity of source market i to a target market with text
BestScore(i) ==
    CHOOSE s \in { Sim(i, j) : j \in TextTargets } :
        \A j \in TextTargets : Sim(i, j) <= s

\* the positions in match_list of the candidates of source market i
CandidatesOf(i) ==
    { n \in 1..Len(match_list) : match_list[n].polymarket_id = i }

\* C11: find_matches emits a candidate for a source market if and only if the
\* market's best similarity score is at least the threshold, a score equal to
\* the threshold included; a source market has at most one candidate, whereas
\* nothing keeps a target market from being in the candidates of several.
C11_CandidateIffBestAtLeastThreshold ==
    match_pc = "done" =>
        \A i \in 1..Len(polymarket_markets) :
            /\ Cardinality(CandidatesOf(i)) <= 1
            /\ CandidatesOf(i) # {} <=>
                  /\ i \in TextSources
                  /\ TextTargets # {}
                  /\ BestScore(i) >= Threshold
            /\ \A n \in CandidatesOf(i) :
                  match_list[n].similarity_score = BestScore(i)

\* two source markets have the same target market as their candidate, one of
\* them with a score equal to the threshold
C11_Witness ==
    /\ match_pc = "done"
    /\ \E n \in 1..Len(match_list) : \E m \in 1..Len(match_list) :
          /\ n # m
          /\ match_list[n].kalshi_ticker = match_list[m].kalshi_ticker
          /\ match_list[n].similarity_score = Threshold

\* C12: when the source list is empty, the target list is empty, no source
\* market has text or no target market has text, find_matches returns the
\* empty list and raises nothing, whether or not the embedding model works.
C12_NothingToMatchReturnsEmpty ==
    (match_pc \notin {"idle", "ready"} /\ (TextSources = {} \/ TextTargets = {})) =>
        /\ match_pc = "done"
        /\ match_list = <<>>

\* find_matches returned from a call with non-empty lists in which no target
\* market had text, while the embedding model could not have been used
C12_Witness ==
    /\ match_pc = "done"
    /\ encoder = "fails"
    /\ polymarket_markets # <<>>
    /\ kalshi_markets # <<>>
    /\ TextSources # {}
    /\ TextTargets = {}

-----------------------------------------------------------------------------
(* Claims about the orchestrator, checked under PipelineSpec *)

\* event number k of the cycle: a venue delivered no market, or its listing
\* failed
ZeroMarketsAt(k) ==
    events[k] \in {"no_markets", "fetch_poly_failed", "fetch_kalshi_failed"}

\* up to event k the cycle has only opened the store and fetched listings:
\* k belongs to the Phase 1 that run_full_pipeline called
InFirstPhase1(k) ==
    \A j \in 1..(k - 1) : events[j] \in {"schema", "fetch_poly", "fetch_kalshi"}

\* C13: when the Phase 1 of a cycle gets no market from a venue, because the
\* listing is empty or because fetching it failed, then all the cycle does is
\* open the store, fetch and return: find_matches, store_matches,
\* get_match_count and get_all_matches are not called, Phase 2 is not run,
\* nothing is scanned and nothing is sent, whatever the store holds, and
\* run_full_pipeline returns to the monitoring loop.
C13_NoMarketsSkipsCycle ==
    \A k \in DOMAIN events :
        (ZeroMarketsAt(k) /\ InFirstPhase1(k)) =>
            /\ events = SubSeq(events, 1, k) \o <<"p1_false">>
            /\ match_pc = "idle"
            /\ scan_pc = "idle"
            /\ sent = <<>>
            /\ lastOp.op = "getAll" => lastOp.before = rows
            /\ lastOp.op = "store" => lastOp.before \subseteq rows
            /\ pipe_pc = "pipeline_return"
            /\ running = 1

\* in the second cycle, with pairs stored by the first, a venue lists nothing
C13_Witness ==
    /\ cycle = 2
    /\ rows # {}
    /\ \E k \in DOMAIN events : ZeroMarketsAt(k) /\ InFirstPhase1(k)
    /\ pipe_pc = "pipeline_return"

\* the first get_all_matches of the cycle, and what the cycle did after it
FirstGetAll ==
    CHOOSE g \in DOMAIN events :
        events[g] = "get_all" /\ \A j \in 1..(g - 1) : events[j] # "get_all"
AfterFirstGetAll == SubSeq(events, FirstGetAll + 1, Len(events))

\* the pairs check_opportunity has been called for are those of the first n
\* entries of matched_markets, in order
ScannedFirst(n) ==
    /\ Len(calls) = n
    /\ \A i \in 1..n :
          calls[i] = <<matched_markets[i].polymarket_id,
                       matched_markets[i].kalshi_ticker>>

\* C14: when run_arbitrage_scan finds the store empty it calls
\* run_market_matching before anything is scanned or sent; if that returns
\* True the store is read again and scan_all_matches is given exactly the
\* rows read then, each once; if it returns False, run_arbitrage_scan returns
\* False and nothing has been scanned or sent.
C14_EmptyStoreRunsPhase1First ==
    /\ (/\ events # <<>>
        /\ events[Len(events)] = "get_all"
        /\ lastOp.op = "getAll"
        /\ lastOp.ret = <<>>
        /\ FirstGetAll = Len(events)) =>
            /\ pipe_pc = "p1_db"
            /\ caller = "scan"
            /\ scan_pc = "idle"
    /\ caller = "scan" =>
          LET rest == AfterFirstGetAll
          IN  /\ \A j \in DOMAIN rest :
                    rest[j] \in {"scan", "send", "summary", "p2_true"} =>
                        \E m \in 1..(j - 2) :
                            rest[m] = "p1_true" /\ rest[m + 1] = "get_all"
              /\ (\E j \in DOMAIN rest : rest[j] = "p1_false") =>
                    /\ pipe_pc = "pipeline_return"
                    /\ events[Len(events)] = "p2_false"
                    /\ scan_pc = "idle"
                    /\ calls = <<>>
                    /\ sent = <<>>
              /\ scan_pc # "idle" =>
                    /\ lastOp.op = "getAll"
                    /\ lastOp.before = rows
                    /\ matched_markets = lastOp.ret
                    /\ matched_markets \in get_all_matches(rows)
                    /\ ScannedFirst(scan_i - 1)
                    /\ scan_pc = "done" => scan_i = Len(matched_markets) + 1

\* Phase 2 found nothing stored, the Phase 1 it called stored pairs, and
\* these have been scanned
C14_Witness ==
    /\ caller = "scan"
    /\ scan_pc = "done"
    /\ matched_markets # <<>>

\* C15: cycles do not overlap: at most one run_full_pipeline call is under
\* way at any time, so find_matches and scan_all_matches are never under way
\* together; a job that falls due while a cycle is running is started by
\* run_pending only when that cycle has returned to the monitoring loop.
C15_CyclesNeverOverlap ==
    /\ running \in {0, 1}
    /\ running = 1 <=> pipe_pc \notin {"start", "wait", "exited"}
    /\ ~(match_pc = "ready" /\ scan_pc = "loop")
    /\ match_pc = "ready" => pipe_pc = "p1_find"
    /\ scan_pc = "loop" => pipe_pc = "p2_scan"

\* the job has fallen due while the first cycle is scanning; the second
\* cycle has not begun
C15_Witness ==
    /\ due
    /\ cycle = 1
    /\ running = 1
    /\ pipe_pc = "p2_scan"
    /\ scan_i > 1

\* scan_all_matches has returned in this cycle
ScanReturned == \E j \in DOMAIN events : events[j] = "scan"

\* C16: every opportunity scan_all_matches returned is handed to send_alert
\* once, in the order of the returned list; an alert that is not delivered
\* (send_alert returns False) stops nothing: the opportunities after it are
\* handed over as well and run_arbitrage_scan returns True.
C16_EveryOpportunitySentOnce ==
    /\ pipe_pc = "p2_send" =>
          /\ send_i \in 1..(Len(opportunities) + 1)
          /\ sent = SubSeq(opportunities, 1, send_i - 1)
          /\ Len(deliveries) = Len(sent)
    /\ (ScanReturned /\ pipe_pc = "pipeline_return") =>
          /\ sent = opportunities
          /\ Len(deliveries) = Len(opportunities)
          /\ events[Len(events)] = "p2_true"

\* two opportunities were found, the alert for the first was not delivered,
\* and the phase has returned
C16_Witness ==
    /\ ScanReturned
    /\ pipe_pc = "pipeline_return"
    /\ Len(opportunities) = 2
    /\ opportunities[1] # opportunities[2]
    /\ deliveries[1] = FALSE

\* event number k of the cycle: a read or write of the database file failed
StoreFailedAt(k) ==
    events[k] \in {"schema_failed", "store_failed", "get_all_failed",
                   "count_failed"}

\* C17: a failure of any read or write of the Match Store during a phase, be
\* it the schema initialisation, store_matches, get_all_matches or
\* get_match_count, aborts the cycle: the phase under way returns False, so
\* do the phases that called it, and nothing else is done in the cycle; in
\* particular Phase 2 does not run after a failure in Phase 1.
C17_StoreFailureAbortsCycle ==
    \A k \in DOMAIN events :
        StoreFailedAt(k) =>
            /\ Len(events) > k
            /\ \A j \in (k + 1)..Len(events) : events[j] \in {"p1_false", "p2_false"}
            /\ pipe_pc = "pipeline_return"

-----------------------------------------------------------------------------
(* Further claims about the Match Store, checked under Spec *)

\* the INSERT of candidate number i of the last store_matches call failed
InsertFailed(i) == RaisesKeyError(lastOp.arg[i])

\* C18: store_matches is all or nothing: when the insert of one of its
\* candidates has failed, none of the rows the call tried to insert is in the
\* table afterwards, and the rows of earlier calls are as they were.
C18_StoreAllOrNothing ==
    (lastOp.op = "store" /\ \E i \in DOMAIN lastOp.arg : InsertFailed(i)) =>
        rows = lastOp.before

-----------------------------------------------------------------------------
(* Claims about the rows during the cycles, checked under PipelineSpec *)

\* C19: in the cycles of the orchestrator, which never call delete_match or
\* clear_all_matches, no step removes or alters a stored row: every row of
\* the table is in the table after the step with the same id, texts, ids,
\* similarity_score and created_at, also when the step stores a candidate
\* for the same pair with another text or score; the count never decreases.
C19_RowsNeverChange ==
    [][/\ \A r \in rows : r \in rows'
       /\ get_match_count(rows') >= get_match_count(rows)]_vars

\* a later cycle has handed store_matches a stored pair with another question
\* and score, and the row is as it was
C19_Witness ==
    /\ cycle = 2
    /\ lastOp.op = "store"
    /\ \E i \in DOMAIN lastOp.arg : \E r \in lastOp.before :
          /\ PairKey(r) = PairKey(lastOp.arg[i])
          /\ r.similarity_score # lastOp.arg[i].similarity_score
          /\ r.polymarket_question # lastOp.arg[i].polymarket_question
          /\ r \in rows

-----------------------------------------------------------------------------
(* A further claim about the Match Store, checked under Spec *)

\* C20: whatever store_matches, delete_match and clear_all_matches calls came
\* before, the list get_all_matches returns holds every row of the table
\* exactly once, and created_at does not increase along the list: rows
\* created later come first.
C20_GetAllNewestFirst ==
    lastOp.op = "getAll" =>
        /\ Len(lastOp.ret) = Cardinality(rows)
        /\ \A r \in rows :
              Cardinality({ i \in DOMAIN lastOp.ret : lastOp.ret[i] = r }) = 1
        /\ \A i \in DOMAIN lastOp.ret : \A j \in DOMAIN lastOp.ret :
              i < j => lastOp.ret[i].created_at >= lastOp.ret[j].created_at

\* rows of two different seconds are listed, after a row had been deleted
C20_Witness ==
    /\ lastOp.op = "getAll"
    /\ seq > Cardinality(rows)
    /\ Len(lastOp.ret) >= 2
    /\ lastOp.ret[1].created_at > lastOp.ret[Len(lastOp.ret)].created_at

-----------------------------------------------------------------------------
(* A claim about the embedding model, checked under PipelineSpec *)

\* C21: the process loads the embedding model at most once, however many
\* find_matches calls and cycles it runs; every later call uses the model
\* loaded before.
C21_ModelLoadedOnce == model_loads <= 1

-----------------------------------------------------------------------------
(* A claim about the monitoring loop, checked under PipelineSpec *)

\* something was raised in the cycle: a listing, the matcher or a database
\* access failed
RaisedInCycle ==
    \E k \in DOMAIN events :
        events[k] \in {"schema_failed", "fetch_poly_failed", "fetch_kalshi_failed",
                       "find_matches_raised", "store_failed", "get_all_failed"}

\* C22: in continuous monitoring nothing that is raised inside a cycle ends
\* the process: the process is over only after an interrupt; a cycle in
\* which something was raised returns to the monitoring loop, and a cycle
\* that begins, begins with Phase 1 and nothing left over from the cycle
\* before.
C22_OnlyInterruptEndsMonitoring ==
    [][/\ pipe_pc' = "exited" => events' = <<"KeyboardInterrupt">>
       /\ (RaisedInCycle /\ pipe_pc' # "exited") =>
              \/ pipe_pc' = "pipeline_return"
              \/ pipe_pc' = "wait" /\ running' = 0
       /\ cycle' # cycle =>
              /\ pipe_pc' = "p1_db"
              /\ caller' = "pipeline"
              /\ events' = <<>>]_vars

\* without the Kalshi key every cycle ends with an exception; the second
\* cycle has begun all the same
C22_Witness ==
    /\ ~config.MOCK_MODE
    /\ config.KALSHI_KEY_ID = ""
    /\ cycle = 2
    /\ pipe_pc = "p1_fetch_poly"

\* C23: for four prices in [0, 1] check_opportunity computes the gross margin
\* of Yes-No as 1 - (source yes + target no) and that of No-Yes as
\* 1 - (source no + target yes), each from its own two legs only, so the two
\* add up to 2 minus the sum of the four prices; a returned opportunity
\* carries the two leg prices, the cost and the gross margin of its own
\* strategy.
C23_GrossFromOwnLegs ==
    (Checked /\ AllPricesValid) =>
        LET m == GrossMargins(SourceYes, SourceNo, TargetYes, TargetNo)
        IN  /\ m.yes_no_profit = MarginOne - (SourceYes + TargetNo) * 1000
            /\ m.no_yes_profit = MarginOne - (SourceNo + TargetYes) * 1000
            /\ m.yes_no_profit + m.no_yes_profit
                  = 2 * MarginOne
                    - (SourceYes + SourceNo + TargetYes + TargetNo) * 1000
            /\ chk.branch = SelectStrategy(m.yes_no_profit, m.no_yes_profit)
            /\ (chk.value # NoneOpportunity /\ chk.value.type = "Yes-No") =>
                  /\ chk.value.polymarket_yes_price = SourceYes
                  /\ chk.value.kalshi_no_price = TargetNo
                  /\ chk.value.total_cost = SourceYes + TargetNo
                  /\ chk.value.gross_profit_margin = m.yes_no_profit
            /\ (chk.value # NoneOpportunity /\ chk.value.type = "No-Yes") =>
                  /\ chk.value.polymarket_no_price = SourceNo
                  /\ chk.value.kalshi_yes_price = TargetYes
                  /\ chk.value.total_cost = SourceNo + TargetYes
                  /\ chk.value.gross_profit_margin = m.no_yes_profit

\* a No-Yes opportunity is returned for prices whose two no legs differ from
\* its own two legs
C23_Witness ==
    /\ Checked /\ AllPricesValid
    /\ chk.value # NoneOpportunity
    /\ chk.value.type = "No-Yes"
    /\ TargetNo # TargetYes
    /\ chk.value.total_cost = SourceNo + TargetYes

\* C24: delete_match(id) returns true and removes that row and no other when
\* a row with that id exists, and returns false and leaves the store as it
\* was when there is none; clear_all_matches() returns the number of rows
\* there were before the call and leaves get_match_count() = 0.
C24_DeleteAndClearFrame ==
    /\ lastOp.op = "delete" =>
          LET match_id == lastOp.arg[1]
              exists == \E r \in lastOp.before : r.id = match_id
          IN  /\ exists =>
                    /\ lastOp.ret = 1
                    /\ rows = { r \in lastOp.before : r.id # match_id }
                    /\ Cardinality(rows) = Cardinality(lastOp.before) - 1
              /\ ~exists =>
                    /\ lastOp.ret = 0
                    /\ rows = lastOp.before
    /\ lastOp.op = "clear" =>
          /\ lastOp.ret = Cardinality(lastOp.before)
          /\ get_match_count(rows) = 0

\* one of two stored rows has been deleted and the other one is still there
C24_Witness ==
    /\ lastOp.op = "delete"
    /\ lastOp.ret = 1
    /\ Cardinality(lastOp.before) = 2
    /\ Cardinality(rows) = 1

\* C25: a market without its text field is in no candidate and does not shift
\* the pairing of the others: every candidate of a finished matching call
\* carries the identifier and the text of one source market that has text,
\* and the identifier and the title of a target market that has text and
\* whose similarity to that source market is the candidate's score and the
\* greatest among the target markets that have text.
C25_CandidatesPairOwnMarkets ==
    match_pc = "done" =>
        \A n \in 1..Len(match_list) :
            \E i \in TextSources : \E j \in TextTargets :
                /\ match_list[n].polymarket_id = polymarket_markets[i].condition_id
                /\ match_list[n].polymarket_question = polymarket_markets[i].question
                /\ match_list[n].kalshi_ticker = kalshi_markets[j].ticker
                /\ match_list[n].kalshi_title = kalshi_markets[j].title
                /\ match_list[n].similarity_score = Sim(i, j)
                /\ \A k \in TextTargets : Sim(i, k) <= Sim(i, j)

\* C26: a value the caller passes is the value applied, 0 included, and the
\* configured default is used only when the argument is left out: when
\* find_matches is called with a similarity threshold, a source market has a
\* candidate if and only if its best score is at least the threshold passed.
C26_PassedThresholdApplied ==
    (match_pc = "done" /\ similarity_threshold # NoneF) =>
        \A i \in TextSources :
            TextTargets # {} =>
                (CandidatesOf(i) # {} <=> BestScore(i) >= similarity_threshold[1])

\* the steps of run_market_matching, in order
Phase1Order ==
    <<"p1_db", "p1_fetch_poly", "p1_fetch_kalshi", "p1_find", "p1_store",
      "p1_count">>
Phase1Step(pc) == CHOOSE n \in DOMAIN Phase1Order : Phase1Order[n] = pc
InPhase1(pc) == \E n \in DOMAIN Phase1Order : Phase1Order[n] = pc

\* the run_market_matching calls of the cycle that have returned, and those
\* that have begun
Phase1Returns(ev) ==
    Cardinality({ k \in DOMAIN ev : ev[k] \in {"p1_true", "p1_false"} })
Phase1Runs(ev, pc) == Phase1Returns(ev) + (IF InPhase1(pc) THEN 1 ELSE 0)

\* how far a cycle has got: the place in run_full_pipeline, then the pairs
\* scanned and the alerts sent
CyclePosition(pc, clr) ==
    IF InPhase1(pc) THEN (IF clr = "scan" THEN 8 ELSE 0) + Phase1Step(pc)
    ELSE IF pc = "p2_db" THEN 7
    ELSE IF pc = "p2_load" THEN 8
    ELSE IF pc = "p2_reload" THEN 15
    ELSE IF pc = "p2_scan_empty" THEN 16
    ELSE IF pc = "p2_scan" THEN 17
    ELSE IF pc = "p2_send" THEN 18
    ELSE IF pc = "pipeline_return" THEN 19
    ELSE 20
CycleMeasure(pc, clr, si, se) == CyclePosition(pc, clr) * 100 + si + se

\* C27: within a cycle run_market_matching is run at most twice, the second
\* time only from run_arbitrage_scan, once, after the first run returned True
\* and the store was read empty; every step of a cycle takes it further
\* towards its return, so the cycle ends, and a cycle whose store is still
\* empty after the second run scans no pair and sends nothing.
C27_Phase1AtMostTwice ==
    [][/\ Phase1Runs(events', pipe_pc') <= 2
       /\ (pipe_pc' = "p1_db" /\ pipe_pc # "p1_db" /\ cycle' = cycle) =>
              /\ pipe_pc = "p2_load"
              /\ caller = "pipeline" /\ caller' = "scan"
              /\ Phase1Returns(events) = 1
              /\ \E k \in DOMAIN events : events[k] = "p1_true"
              /\ rows = {}
              /\ matched_markets' = <<>>
       /\ (running = 1 /\ running' = 1
            /\ <<pipe_pc, events, scan_i, send_i>>'
                  # <<pipe_pc, events, scan_i, send_i>>) =>
              CycleMeasure(pipe_pc', caller', scan_i', send_i')
                  > CycleMeasure(pipe_pc, caller, scan_i, send_i)
       /\ (pipe_pc' = "pipeline_return" /\ caller' = "scan"
            /\ matched_markets' = <<>>
            /\ events'[Len(events')] = "p2_true") =>
              /\ Phase1Runs(events', pipe_pc') = 2
              /\ calls' = <<>>
              /\ opportunities' = <<>>
              /\ sent' = <<>>]_vars

\* the second run_market_matching of a cycle stored nothing, no pair was
\* scanned, and run_arbitrage_scan has returned True
C27_Witness ==
    /\ pipe_pc = "pipeline_return"
    /\ caller = "scan"
    /\ rows = {}
    /\ matched_markets = <<>>
    /\ Phase1Returns(events) = 2
    /\ events[Len(events)] = "p2_true"
    /\ scan_pc = "done"

Strategies == {"Yes-No", "No-Yes"}

\* C28: for valid prices and fees that are not negative, the strategy
\* check_opportunity evaluates is one of greatest floored net margin: no
\* strategy of positive gross margin has a greater net margin than the one
\* evaluated, none has a greater one than that of a returned opportunity, and
\* when None is returned no strategy of positive gross margin has a net
\* margin of min_profit_margin or more.
C28_EvaluatedStrategyHasGreatestNet ==
    (Checked /\ AllPricesValid /\ detector.kalshi_fee >= 0
             /\ detector.polymarket_gas_fee >= 0) =>
        /\ chk.branch # None =>
              \A s \in Strategies :
                  GrossOf(s) > 0 => NetOf(s) <= NetOf(chk.branch)
        /\ chk.value # NoneOpportunity =>
              /\ chk.value.net_profit_margin = NetOf(chk.value.type)
              /\ \A s \in Strategies : NetOf(s) <= chk.value.net_profit_margin
        /\ chk.value = NoneOpportunity =>
              \A s \in Strategies :
                  GrossOf(s) > 0 => NetOf(s) < detector.min_profit_margin

\* both strategies have a positive gross margin, Yes-No the greater one, and
\* its net margin is below min_profit_margin: None is returned
C28_Witness ==
    /\ Checked /\ AllPricesValid
    /\ GrossOf("Yes-No") > GrossOf("No-Yes")
    /\ GrossOf("No-Yes") > 0
    /\ chk.branch = "Yes-No"
    /\ chk.stage = "below_min"
    /\ chk.value = NoneOpportunity

\* what a cycle does in mock mode, from beginning to end
MockCycleEvents == <<"schema", "fetch_poly", "fetch_kalshi", "no_markets", "p1_false">>
IsPrefix(s, t) == Len(s) <= Len(t) /\ s = SubSeq(t, 1, Len(s))

\* C29: in mock mode no venue client is built, both listings are empty and
\* every price lookup answers None; every cycle ends in Phase 1, whatever the
\* store holds: no row is added or removed, the store is not even read,
\* nothing is scanned and no opportunity is sent.
C29_MockModeAbortsInPhase1 ==
    [][config.MOCK_MODE =>
        /\ clients' = NoClients
        /\ polymarket_markets' = <<>> /\ kalshi_markets' = <<>>
        /\ \A response \in ScanPolyResponses :
              LET p == get_polymarket_price(config, clients', response)
              IN  ~p.raised /\ p.prices = NonePrices
        /\ \A response \in ScanKalshiResponses :
              LET k == get_kalshi_price(config, clients', response)
              IN  ~k.raised /\ k.prices = NonePrices
        /\ rows' = rows /\ seq' = seq
        /\ lastOp'.op = "init"
        /\ match_pc' = "idle" /\ scan_pc' = "idle"
        /\ calls' = <<>> /\ opportunities' = <<>> /\ sent' = <<>>
        /\ pipe_pc' \notin {"start", "wait", "exited"} =>
              \/ IsPrefix(events', MockCycleEvents)
              \/ events' = <<"schema_failed", "p1_false">>
        /\ pipe_pc' = "pipeline_return" =>
              events'[Len(events')] = "p1_false"]_vars

\* the second cycle of a mock-mode process that found a row in the store has
\* got no market from either venue and returns
C29_Witness ==
    /\ config.MOCK_MODE
    /\ rows # {}
    /\ cycle = 2
    /\ pipe_pc = "pipeline_return"
    /\ events = MockCycleEvents

\* candidate number i of the last store_matches call has no identifier for
\* one of the two markets, as find_matches emits it for a market without one
MissingId(i) ==
    lastOp.arg[i].polymarket_id = None \/ lastOp.arg[i].kalshi_ticker = None

\* candidate number i of the last store_matches call has all its fields
Complete(i) ==
    ~RaisesKeyError(lastOp.arg[i]) /\ ~ViolatesNotNull(lastOp.arg[i])

\* C30: a candidate whose polymarket_id or kalshi_ticker is None is never
\* stored: no row has a null identifier; store_matches passes such a
\* candidate over, does not count it in the number it returns, and stores
\* the complete candidates of the same call as it does without it.
C30_NullIdNeverStored ==
    /\ \A r \in rows : r.polymarket_id # None /\ r.kalshi_ticker # None
    /\ lastOp.op = "store" =>
          /\ lastOp.ret <= Cardinality({ i \in DOMAIN lastOp.arg : ~MissingId(i) })
          /\ lastOp.ret = get_match_count(rows) - get_match_count(lastOp.before)
          /\ \A i \in DOMAIN lastOp.arg :
                Complete(i) =>
                    \E r \in rows :
                        /\ PairKey(r) = PairKey(lastOp.arg[i])
                        /\ r \notin lastOp.before =>
                              r.polymarket_question = lastOp.arg[i].polymarket_question
          /\ lastOp.before \subseteq rows

\* of two candidates the first has no source identifier; the second is stored
\* and the call returns 1
C30_Witness ==
    /\ lastOp.op = "store"
    /\ Len(lastOp.arg) = 2
    /\ MissingId(1)
    /\ Complete(2)
    /\ lastOp.ret = 1
    /\ \E r \in rows \ lastOp.before : PairKey(r) = PairKey(lastOp.arg[2])

=============================================================================
